---- MODULE Spec2Model ----
(***************************************************************************)
(* Model of the real-time layer of the canvas editor:                      *)
(*   - the Socket.IO relay (presence registry, room router, patch relay,   *)
(*     comment broadcaster) of backend/src/services/design.service.ts,     *)
(*   - the design persistence service (createDesign / updateDesign),       *)
(*   - the editor page of DesignEditorPage.tsx: remote-patch handler,      *)
(*     history, pointer interactions and the comment panel with mentions.  *)
(***************************************************************************)
EXTENDS Integers, Sequences, FiniteSets, TLC

(***************************************************************************)
(* The connections, rooms, users and payloads of the model.  A client      *)
(* joins under its own user id (joinPayload.userId is user.id), so each    *)
(* connection has one user; sA and sC are two tabs of the same user.       *)
(***************************************************************************)
Sockets == {"sA", "sB", "sC"}
RoomIds == {"d1", "d2"}
UserIds == {"u1", "u2"}
UserOf == [s \in Sockets |-> IF s = "sB" THEN "u2" ELSE "u1"]
Cursors == {"c1"}
NoCursor == "undefined"
Patches == {"p1", "p2"}
NoSocket == "none"
NoRoom == "none"

(***************************************************************************)
(* JavaScript Map and Set.  A Map is a function whose DOMAIN is its key    *)
(* set, a Set is a set; the insertion order, which only orders the         *)
(* entries of a participants list and the emits of one cleanup, is not     *)
(* kept.                                                                   *)
(***************************************************************************)
EmptyMap == <<>>

MapHas(m, k) == k \in DOMAIN m

MapGet(m, k) == m[k]

MapSize(m) == Cardinality(DOMAIN m)

\* Array.from(map.values())
MapValues(m) == {m[k] : k \in DOMAIN m}

\* Map.prototype.set
MapSet(m, k, v) == [x \in (DOMAIN m) \cup {k} |-> IF x = k THEN v ELSE m[x]]

\* Map.prototype.delete
MapDelete(m, k) == [x \in (DOMAIN m) \ {k} |-> m[x]]

RECURSIVE SetToSeq(_)
\* Set.prototype.forEach visits every member once.
SetToSeq(S) ==
    IF S = {} THEN <<>>
    ELSE LET x == CHOOSE y \in S : TRUE IN <<x>> \o SetToSeq(S \ {x})

VARIABLES
    conn,                \* socket -> "new" | "live" | "gone"
    rooms,               \* Socket.IO adapter: room id -> set of sockets joined
    presenceByDesign,    \* Map<designId, Map<socketId, PresenceInfo>>
    membershipBySocket,  \* Map<socketId, Set<designId>>
    lastEvent,           \* the event the server handled last
    emitted,             \* what that handler emitted, in order
    designs,             \* the designs collection: Map<id, document>
    saving,              \* updateDesign calls between findById and save()
    clock,               \* the value new Date() returns next
    lastCall,            \* the service call that returned or threw last
    comments,            \* the comments collection
    pendingComments,     \* comment:create handlers awaiting CommentModel.create
    submissions,         \* per comment:create handled: what became of it
    clients,             \* editor page per connection: its React state and refs
    inbox,               \* design:patch events relayed to a client, not yet handled
    clientEvent,         \* the handler a client ran last and what it emitted
    edits,               \* local edits made so far, over all clients
    sent,                \* design:patch events emitted so far, over all clients
    panel,               \* comment panel of one editor page: its React state and refs
    wire                 \* comment requests and events between that page and the server

sockVars == <<conn, rooms, presenceByDesign, membershipBySocket, lastEvent, emitted>>

storeVars == <<designs, saving, clock, lastCall>>

commentVars == <<comments, pendingComments, submissions>>

clientVars == <<clients, inbox, clientEvent, edits, sent>>

panelVars == <<panel, wire>>

vars == <<sockVars, storeVars, commentVars, clientVars, panelVars>>

(***************************************************************************)
(* Socket.IO emit primitives.  An emission records the target room (or     *)
(* NoRoom for a direct socket.emit) and the connections it is delivered    *)
(* to.  `rms` is the adapter state at the time of the emit.                *)
(***************************************************************************)
Emission(ev, room, to, payload) ==
    [event |-> ev, room |-> room, to |-> to, payload |-> payload]

\* io.to(room).emit(ev, payload): every socket in the room.
IoToEmit(rms, room, ev, payload) ==
    Emission(ev, room, rms[room], payload)

\* Mutant: socket.broadcast.emit, which ignores the room.
SocketBroadcastEmit(rms, s, room, ev, payload) ==
    Emission(ev, room, (UNION {rms[d] : d \in RoomIds}) \ {s}, payload)

\* socket.to(room).emit(ev, payload): every socket in the room but the sender.
SocketToEmit(rms, s, room, ev, payload) ==
    Emission(ev, room, rms[room] \ {s}, payload)

\* socket.emit(ev, payload): the socket itself, if it is still connected.
SocketEmit(cn, s, ev, payload) ==
    Emission(ev, NoRoom, IF cn[s] = "live" THEN {s} ELSE {}, payload)

(***************************************************************************)
(* Presence registry                                                       *)
(***************************************************************************)
PresenceInfo(s, userId, cursor) ==
    [socketId |-> s, userId |-> userId, cursor |-> cursor]

\* presenceByDesign.get(designId)?.values() ?? []
PresenceList(pbd, designId) ==
    IF MapHas(pbd, designId) THEN MapValues(MapGet(pbd, designId)) ELSE {}

\* Mutant: io.emit, the list goes to every connection in any room.
emitPresenceEveryone(rms, pbd, designId) ==
    Emission("design:presence", designId, UNION {rms[d] : d \in DOMAIN rms},
             [designId |-> designId, participants |-> PresenceList(pbd, designId)])

\* emitPresence(io, designId)
emitPresence(rms, pbd, designId) ==
    IoToEmit(rms, designId, "design:presence",
             [designId |-> designId, participants |-> PresenceList(pbd, designId)])

\* Mutant: map.delete(designId), the wrong key, so the entry stays.
removePresenceWrongKey(pbd, designId, s) ==
    IF ~MapHas(pbd, designId) THEN pbd
    ELSE LET map == MapDelete(MapGet(pbd, designId), designId)
         IN  IF MapSize(map) = 0 THEN MapDelete(pbd, designId)
             ELSE MapSet(pbd, designId, map)

\* Mutant: the design's whole presence map is dropped with the socket's entry.
removePresenceClearsRoom(pbd, designId, s) ==
    IF ~MapHas(pbd, designId) THEN pbd ELSE MapDelete(pbd, designId)

\* Mutant: the design's presence map is kept when its last entry goes.
removePresenceKeepsEmpty(pbd, designId, s) ==
    IF ~MapHas(pbd, designId) THEN pbd
    ELSE MapSet(pbd, designId, MapDelete(MapGet(pbd, designId), s))

\* removePresence(designId, socketId)
removePresence(pbd, designId, s) ==
    IF ~MapHas(pbd, designId) THEN pbd
    ELSE LET map == MapDelete(MapGet(pbd, designId), s)
         IN  IF MapSize(map) = 0 THEN MapDelete(pbd, designId)
             ELSE MapSet(pbd, designId, map)

\* socket.rooms: the rooms the adapter holds the socket in
JoinedRooms(rms, s) == {d \in RoomIds : s \in rms[d]}

Event(type, s, designId, args) ==
    [type |-> type, socket |-> s, designId |-> designId, args |-> args]

NoArgs == [none |-> TRUE]

(***************************************************************************)
(* io.on("connection")                                                     *)
(***************************************************************************)
Connect(s) ==
    /\ conn[s] = "new"
    /\ conn' = [conn EXCEPT ![s] = "live"]
    /\ membershipBySocket' = MapSet(membershipBySocket, s, {})
    /\ lastEvent' = Event("connection", s, NoRoom, NoArgs)
    /\ emitted' = <<>>
    /\ UNCHANGED <<rooms, presenceByDesign>>
    /\ UNCHANGED <<storeVars, commentVars, clientVars, panelVars>>

(***************************************************************************)
(* socket.on("design:join")                                                *)
(***************************************************************************)
\* The relay's registries: rooms, presence and memberships.
Registry(rms, pbd, mbs) ==
    [rooms |-> rms, presenceByDesign |-> pbd, membershipBySocket |-> mbs]

\* Mutant: the design's presence map is created anew on every join.
joinDesignFreshMap(reg, s, designId, userId) ==
    Registry([reg.rooms EXCEPT ![designId] = @ \cup {s}],
             MapSet(reg.presenceByDesign, designId,
                    MapSet(EmptyMap, s, PresenceInfo(s, userId, NoCursor))),
             IF MapHas(reg.membershipBySocket, s)
             THEN MapSet(reg.membershipBySocket, s,
                         MapGet(reg.membershipBySocket, s) \cup {designId})
             ELSE reg.membershipBySocket)

\* The registries after the design:join handler has run for socket s.
joinDesign(reg, s, designId, userId) ==
    LET presence == IF MapHas(reg.presenceByDesign, designId)
                    THEN MapGet(reg.presenceByDesign, designId) ELSE EmptyMap
    IN  Registry([reg.rooms EXCEPT ![designId] = @ \cup {s}],
                 MapSet(reg.presenceByDesign, designId,
                        MapSet(presence, s, PresenceInfo(s, userId, NoCursor))),
                 IF MapHas(reg.membershipBySocket, s)
                 THEN MapSet(reg.membershipBySocket, s,
                             MapGet(reg.membershipBySocket, s) \cup {designId})
                 ELSE reg.membershipBySocket)

Join(s, designId, userId) ==
    /\ conn[s] = "live"
    /\ LET reg == joinDesign(Registry(rooms, presenceByDesign, membershipBySocket),
                             s, designId, userId)
       IN  /\ rooms' = reg.rooms
           /\ presenceByDesign' = reg.presenceByDesign
           /\ membershipBySocket' = reg.membershipBySocket
           /\ emitted' = <<emitPresence(reg.rooms, reg.presenceByDesign, designId)>>
    /\ lastEvent' = Event("design:join", s, designId,
                          [userId |-> userId, rejoin |-> s \in rooms[designId]])
    /\ UNCHANGED conn
    /\ UNCHANGED <<storeVars, commentVars, clientVars, panelVars>>

(***************************************************************************)
(* socket.on("design:leave")                                               *)
(***************************************************************************)
\* Mutant: the leave handler forgets the connection's membership set.
leaveDesignKeepsMembership(reg, s, designId) ==
    Registry([reg.rooms EXCEPT ![designId] = @ \ {s}],
             removePresence(reg.presenceByDesign, designId, s),
             reg.membershipBySocket)

\* The registries after the design:leave handler has run for socket s.
leaveDesign(reg, s, designId) ==
    Registry([reg.rooms EXCEPT ![designId] = @ \ {s}],
             removePresence(reg.presenceByDesign, designId, s),
             IF MapHas(reg.membershipBySocket, s)
             THEN MapSet(reg.membershipBySocket, s,
                         MapGet(reg.membershipBySocket, s) \ {designId})
             ELSE reg.membershipBySocket)

Leave(s, designId) ==
    /\ conn[s] = "live"
    /\ LET reg == leaveDesign(Registry(rooms, presenceByDesign, membershipBySocket),
                              s, designId)
       IN  /\ rooms' = reg.rooms
           /\ presenceByDesign' = reg.presenceByDesign
           /\ membershipBySocket' = reg.membershipBySocket
           /\ emitted' = <<emitPresence(reg.rooms, reg.presenceByDesign, designId)>>
    /\ lastEvent' = Event("design:leave", s, designId, NoArgs)
    /\ UNCHANGED conn
    /\ UNCHANGED <<storeVars, commentVars, clientVars, panelVars>>

(***************************************************************************)
(* socket.on("design:cursor")                                              *)
(***************************************************************************)
CursorEvent(s, designId, cursor) ==
    /\ conn[s] = "live"
    /\ presenceByDesign' =
          IF MapHas(presenceByDesign, designId)
             /\ MapHas(MapGet(presenceByDesign, designId), s)
          THEN LET map == MapGet(presenceByDesign, designId)
                   presence == MapGet(map, s)
               IN  MapSet(presenceByDesign, designId,
                          MapSet(map, s, [presence EXCEPT !.cursor = cursor]))
          ELSE presenceByDesign
    /\ emitted' = <<SocketToEmit(rooms, s, designId, "design:cursor",
                      [designId |-> designId, socketId |-> s, cursor |-> cursor])>>
    /\ lastEvent' = Event("design:cursor", s, designId, [cursor |-> cursor])
    /\ UNCHANGED <<conn, rooms, membershipBySocket>>
    /\ UNCHANGED <<storeVars, commentVars, clientVars, panelVars>>

(***************************************************************************)
(* socket.on("design:patch")                                               *)
(***************************************************************************)
\* Mutant: io.to(designId).emit, which echoes the patch to its sender.
relayPatchEcho(rms, s, payload) ==
    IoToEmit(rms, payload.designId, "design:patch",
             [designId |-> payload.designId, actorId |-> payload.actorId,
              patch |-> payload.patch])

\* Mutant: the patch is relayed only when its sender is in the room.
relayPatchMembersOnly(rms, s, payload) ==
    Emission("design:patch", payload.designId,
             IF s \in rms[payload.designId] THEN rms[payload.designId] \ {s} ELSE {},
             [designId |-> payload.designId, actorId |-> payload.actorId,
              patch |-> payload.patch])

relayPatch(rms, s, payload) ==
    SocketToEmit(rms, s, payload.designId, "design:patch",
                 [designId |-> payload.designId, actorId |-> payload.actorId,
                  patch |-> payload.patch])

PatchEvent(s, designId, actorId, patch) ==
    /\ conn[s] = "live"
    /\ LET payload == [designId |-> designId, actorId |-> actorId, patch |-> patch]
       IN  /\ emitted' = <<relayPatch(rooms, s, payload)>>
           /\ lastEvent' = Event("design:patch", s, designId, payload)
    /\ UNCHANGED <<conn, rooms, presenceByDesign, membershipBySocket>>
    /\ UNCHANGED <<storeVars, commentVars, clientVars, panelVars>>

(***************************************************************************)
(* socket.on("disconnect"): Socket.IO has already taken the socket out of  *)
(* every room when the handler runs.                                       *)
(***************************************************************************)
\* Mutant: only the first membership is cleaned up.
DisconnectCleanupFirstOnly(rms, pbd, s, memberships) ==
    IF memberships = <<>> THEN [pbd |-> pbd, out |-> <<>>]
    ELSE LET designId == Head(memberships)
             pbd1 == removePresence(pbd, designId, s)
         IN  [pbd |-> pbd1, out |-> <<emitPresence(rms, pbd1, designId)>>]

RECURSIVE DisconnectCleanup(_, _, _, _)
\* memberships.forEach((designId) => { removePresence; emitPresence })
DisconnectCleanup(rms, pbd, s, memberships) ==
    IF memberships = <<>> THEN [pbd |-> pbd, out |-> <<>>]
    ELSE LET designId == Head(memberships)
             pbd1 == removePresence(pbd, designId, s)
             rest == DisconnectCleanup(rms, pbd1, s, Tail(memberships))
         IN  [pbd |-> rest.pbd,
              out |-> <<emitPresence(rms, pbd1, designId)>> \o rest.out]

\* The registries after the disconnect handler has run for socket s, and the
\* presence lists it emitted.
disconnectSocket(reg, s) ==
    LET rms == [d \in RoomIds |-> reg.rooms[d] \ {s}]
        memberships == IF MapHas(reg.membershipBySocket, s)
                       THEN MapGet(reg.membershipBySocket, s) ELSE {}
        done == DisconnectCleanup(rms, reg.presenceByDesign, s, SetToSeq(memberships))
    IN  [reg |-> Registry(rms, done.pbd, MapDelete(reg.membershipBySocket, s)),
         out |-> done.out]

Disconnect(s) ==
    /\ conn[s] = "live"
    /\ conn' = [conn EXCEPT ![s] = "gone"]
    /\ LET done == disconnectSocket(Registry(rooms, presenceByDesign, membershipBySocket), s)
       IN  /\ rooms' = done.reg.rooms
           /\ presenceByDesign' = done.reg.presenceByDesign
           /\ membershipBySocket' = done.reg.membershipBySocket
           /\ emitted' = done.out
           /\ lastEvent' = Event("disconnect", s, NoRoom, [joined |-> JoinedRooms(rooms, s)])
    /\ UNCHANGED <<storeVars, commentVars, clientVars, panelVars>>

SockInit ==
    /\ conn = [s \in Sockets |-> "new"]
    /\ rooms = [d \in RoomIds |-> {}]
    /\ presenceByDesign = EmptyMap
    /\ membershipBySocket = EmptyMap
    /\ lastEvent = Event("none", NoSocket, NoRoom, NoArgs)
    /\ emitted = <<>>

(***************************************************************************)
(* The design persistence service (services/design.service.ts with owner   *)
(* and visibility).  A document keeps name, width, height, elements,       *)
(* isPublic, version, lastSavedAt and owner; collaboratorIds is written by *)
(* no code path and stays empty.                                           *)
(***************************************************************************)
MaxVersion == 2
MaxClock == 3

DesignIds == {"d1"}
DataFields == {"name", "width", "height", "elements", "isPublic"}
BadId == "bad"
NoVersion == -1

\* The bodies updateDesign is called with: `fields` are the keys the body
\* carries (typeof input.f is not "undefined"), the rest are their values.
Body(fields, name, width, height, elements, isPublic) ==
    [fields |-> fields, name |-> name, width |-> width, height |-> height,
     elements |-> elements, isPublic |-> isPublic]

UpdateBodies ==
    { Body({"name", "width", "height"}, "n2", 200, 200, "e1", FALSE),
      Body({"elements", "isPublic"}, "n1", 100, 100, "e2", TRUE),
      Body(DataFields, "n1", 100, 200, "e1", FALSE),
      Body({}, "n1", 100, 100, "e1", FALSE) }

\* createDesign takes name, width, height and maybe elements and isPublic.
CreateBodies ==
    { Body({"name", "width", "height"}, "n1", 100, 100, "e1", FALSE),
      Body({"name", "width", "height", "isPublic"}, "n1", 100, 100, "e1", TRUE) }

Has(input, f) == f \in input.fields

VersionInputs == (0..MaxVersion) \cup {NoVersion}

\* isValidObjectId(id)
isValidObjectId(id) == id # BadId

\* Mutant: every user may access every design.
canAccessDesignAnyone(design, userId) == TRUE

\* canAccessDesign(design, userId)
canAccessDesign(design, userId) ==
    \/ design.owner = userId
    \/ userId \in design.collaboratorIds
    \/ design.isPublic

Call(op, slot, userId, id, version, code) ==
    [op |-> op, slot |-> slot, userId |-> userId, id |-> id,
     version |-> version, code |-> code]

Idle == [state |-> "idle"]

Slots == {"r1", "r2"}
SlotBefore(a, b) == a = "r1" /\ b = "r2"

(***************************************************************************)
(* createDesign(input, ownerId)                                            *)
(***************************************************************************)
CreateDesign(id, ownerId, input) ==
    /\ ~MapHas(designs, id)
    /\ clock < MaxClock
    /\ designs' = MapSet(designs, id,
          [name |-> input.name, width |-> input.width, height |-> input.height,
           elements |-> IF Has(input, "elements") THEN input.elements ELSE "e0",
           isPublic |-> IF Has(input, "isPublic") THEN input.isPublic ELSE FALSE,
           version |-> 0, lastSavedAt |-> clock, owner |-> ownerId,
           collaboratorIds |-> {}, vkey |-> 0])
    /\ clock' = clock + 1
    /\ lastCall' = Call("createDesign", "none", ownerId, id, NoVersion, "OK")
    /\ UNCHANGED saving
    /\ UNCHANGED <<sockVars, commentVars, clientVars, panelVars>>

(***************************************************************************)
(* updateDesign(id, input, userId), up to the await of design.save(): the  *)
(* checks, and the changes made to the loaded document in memory.          *)
(***************************************************************************)
\* Mutant: the version guard is missing.
UpdateCheckNoVersionGuard(store, id, input, version, userId) ==
    IF ~isValidObjectId(id) THEN "DESIGN_NOT_FOUND"
    ELSE IF ~MapHas(store, id) THEN "DESIGN_NOT_FOUND"
    ELSE IF ~canAccessDesign(MapGet(store, id), userId) THEN "DESIGN_NOT_FOUND"
    ELSE IF Has(input, "isPublic") /\ MapGet(store, id).owner # userId
         THEN "AUTH_ERROR"
    ELSE "OK"

\* Mutant: visibility is not reserved to the owner.
UpdateCheckNoOwnerGuard(store, id, input, version, userId) ==
    IF ~isValidObjectId(id) THEN "DESIGN_NOT_FOUND"
    ELSE IF ~MapHas(store, id) THEN "DESIGN_NOT_FOUND"
    ELSE IF ~canAccessDesign(MapGet(store, id), userId) THEN "DESIGN_NOT_FOUND"
    ELSE IF version # MapGet(store, id).version THEN "VERSION_CONFLICT"
    ELSE "OK"

\* The code updateDesign throws with before it saves, or "OK".
UpdateCheck(store, id, input, version, userId) ==
    IF ~isValidObjectId(id) THEN "DESIGN_NOT_FOUND"
    ELSE IF ~MapHas(store, id) THEN "DESIGN_NOT_FOUND"
    ELSE IF ~canAccessDesign(MapGet(store, id), userId) THEN "DESIGN_NOT_FOUND"
    ELSE IF version # MapGet(store, id).version THEN "VERSION_CONFLICT"
    ELSE IF Has(input, "isPublic") /\ MapGet(store, id).owner # userId
         THEN "AUTH_ERROR"
    ELSE "OK"

\* The loaded document after the assignments of lines 131-156.
UpdateApply(design, input, now) ==
    [design EXCEPT
        !.name = IF Has(input, "name") THEN input.name ELSE @,
        !.width = IF Has(input, "width") THEN input.width ELSE @,
        !.height = IF Has(input, "height") THEN input.height ELSE @,
        !.elements = IF Has(input, "elements") THEN input.elements ELSE @,
        !.isPublic = IF Has(input, "isPublic") THEN input.isPublic ELSE @,
        !.version = @ + 1,
        !.lastSavedAt = now]

\* The paths Mongoose holds as modified: those whose value was changed.
ModifiedPaths(loaded, doc) ==
    {f \in DataFields \cup {"version", "lastSavedAt"} : doc[f] # loaded[f]}

\* An in-flight call takes the first free slot; the slots are interchangeable.
FreeSlot(sv, slot) ==
    /\ sv[slot] = Idle
    /\ \A r \in Slots : sv[r] = Idle => ~SlotBefore(r, slot)

UpdateRead(slot, id, body, version, userId) ==
    /\ FreeSlot(saving, slot)
    /\ LET code == UpdateCheck(designs, id, body, version, userId)
       IN  IF code # "OK"
           THEN /\ lastCall' = Call("updateDesign", "none", userId, id, version, code)
                /\ UNCHANGED <<designs, saving, clock>>
           ELSE /\ clock < MaxClock
                /\ LET loaded == MapGet(designs, id)
                       doc == UpdateApply(loaded, body, clock)
                   IN  saving' = [saving EXCEPT ![slot] =
                          [state |-> "saving", id |-> id, userId |-> userId,
                           version |-> version, doc |-> doc,
                           modified |-> ModifiedPaths(loaded, doc)]]
                /\ clock' = clock + 1
                /\ lastCall' = Call("updateDesign", slot, userId, id, version, "PENDING")
                /\ UNCHANGED designs
    /\ UNCHANGED <<sockVars, commentVars, clientVars, panelVars>>

(***************************************************************************)
(* design.save(): Mongoose sends updateOne(filter, {$set: modified paths}).*)
(* The schema sets no optimisticConcurrency, so the filter is the _id      *)
(* alone, unless an array path (elements) is $set: then Mongoose adds the  *)
(* loaded __v (field vkey here) to the filter and increments it, and a     *)
(* save that matches no document throws a VersionError.                    *)
(***************************************************************************)
SaveMatches(stored, doc, modified) ==
    "elements" \in modified => stored.vkey = doc.vkey

SaveDocument(stored, doc, modified) ==
    [f \in DOMAIN stored |->
        IF f = "vkey" THEN (IF "elements" \in modified THEN stored.vkey + 1 ELSE stored.vkey)
        ELSE IF f \in modified THEN doc[f]
        ELSE stored[f]]

UpdateSave(slot) ==
    /\ saving[slot] # Idle
    /\ LET p == saving[slot]
           stored == MapGet(designs, p.id)
       IN  IF SaveMatches(stored, p.doc, p.modified)
           THEN /\ designs' = MapSet(designs, p.id, SaveDocument(stored, p.doc, p.modified))
                /\ lastCall' = Call("updateDesign", slot, p.userId, p.id, p.version, "OK")
           ELSE /\ designs' = designs
                /\ lastCall' = Call("updateDesign", slot, p.userId, p.id, p.version,
                                    "INTERNAL_ERROR")
    /\ saving' = [saving EXCEPT ![slot] = Idle]
    /\ UNCHANGED clock
    /\ UNCHANGED <<sockVars, commentVars, clientVars, panelVars>>

StoreInit ==
    /\ designs = EmptyMap
    /\ saving = [r \in Slots |-> Idle]
    /\ clock = 0
    /\ lastCall = Call("none", "none", "none", "none", NoVersion, "none")

StoreNext ==
    \/ \E id \in DesignIds, u \in UserIds, b \in CreateBodies : CreateDesign(id, u, b)
    \/ \E r \in Slots, id \in DesignIds \cup {BadId}, b \in UpdateBodies,
          v \in VersionInputs, u \in UserIds : UpdateRead(r, id, b, v, u)
    \/ \E r \in Slots : UpdateSave(r)

(***************************************************************************)
(* Comment broadcaster: socket.on("comment:create"), createCommentSchema   *)
(* and createComment.                                                      *)
(***************************************************************************)
MaxSubmissions == 2

CommentPayload(fields, author, message, mentions, position) ==
    [fields |-> fields, author |-> author, message |-> message,
     mentions |-> mentions, position |-> position]

NullPosition == [x |-> 0, y |-> 0, null |-> TRUE]

\* The payloads clients submit: complete, minimal, empty message, no author.
CommentPayloads ==
    { CommentPayload({"author", "message", "mentions", "position"}, "Ava", "hi @Bo",
                     <<"u2">>, [x |-> 10, y |-> 20, null |-> FALSE]),
      CommentPayload({"author", "message"}, "Bo", "ok", <<>>, NullPosition),
      CommentPayload({"author", "message", "mentions"}, "Ava", "", <<>>, NullPosition),
      CommentPayload({"message"}, "", "hi", <<>>, NullPosition) }

\* createCommentSchema.safeParse(payload).error.flatten().fieldErrors
FieldErrors(payload) ==
    {f \in {"author", "message"} : ~Has(payload, f) \/ payload[f] = ""}

\* Mutant: the schema only looks at the author.
safeParseAuthorOnly(payload) ==
    LET errors == {f \in {"author"} : ~Has(payload, f) \/ payload[f] = ""}
    IN  [success |-> errors = {},
         errors |-> errors,
         data |-> [author |-> payload.author, message |-> payload.message,
                   mentions |-> IF Has(payload, "mentions") THEN payload.mentions ELSE <<>>,
                   position |-> IF Has(payload, "position") THEN payload.position
                                ELSE NullPosition]]

\* createCommentSchema.safeParse(payload)
safeParse(payload) ==
    [success |-> FieldErrors(payload) = {},
     errors |-> FieldErrors(payload),
     data |-> [author |-> payload.author, message |-> payload.message,
               mentions |-> IF Has(payload, "mentions") THEN payload.mentions ELSE <<>>,
               position |-> IF Has(payload, "position") THEN payload.position
                            ELSE NullPosition]]

\* The actor of a comment: the sender's presence entry, or the socket itself.
CommentActor(pbd, designId, s) ==
    IF MapHas(pbd, designId) /\ MapHas(MapGet(pbd, designId), s)
    THEN [id |-> MapGet(MapGet(pbd, designId), s).userId, name |-> "known"]
    ELSE [id |-> s, name |-> "Anonymous"]

\* The document CommentModel.create stores for createComment(designId, user, input).
CommentDoc(id, designId, user, input) ==
    [id |-> id, designId |-> designId, authorId |-> user.id, authorName |-> user.name,
     message |-> input.message, mentions |-> input.mentions,
     position |-> input.position]

ErrorPayload(code, details) == [code |-> code, details |-> details]

\* The catch block: socket.emit("error", ...)
EmitError(cn, s, code, details) == SocketEmit(cn, s, "error", ErrorPayload(code, details))

\* Mutant: the created comment is sent to the other members only.
EmitCommentCreatedToOthers(rms, s, designId, comment) ==
    SocketToEmit(rms, s, designId, "comment:created",
                 [designId |-> designId, comment |-> comment])

\* io.to(designId).emit("comment:created", { designId, comment })
EmitCommentCreated(rms, s, designId, comment) ==
    IoToEmit(rms, designId, "comment:created",
             [designId |-> designId, comment |-> comment])

\* Mutant: a failed store write is broadcast like a stored comment, and reported.
StoreOutcomeBroadcastOnFailure(ok, rms, cn, p, doc) ==
    IF ok THEN [stored |-> {doc}, out |-> <<EmitCommentCreated(rms, p.socket, p.designId, doc)>>]
    ELSE [stored |-> {},
          out |-> <<EmitCommentCreated(rms, p.socket, p.designId, doc),
                    EmitError(cn, p.socket, "INTERNAL_ERROR", {})>>]

\* What the handler does once CommentModel.create settles (lines 156-167).
StoreOutcome(ok, rms, cn, p, doc) ==
    IF ok THEN [stored |-> {doc}, out |-> <<EmitCommentCreated(rms, p.socket, p.designId, doc)>>]
    ELSE [stored |-> {}, out |-> <<EmitError(cn, p.socket, "INTERNAL_ERROR", {})>>]

NewSubmission == Cardinality(DOMAIN submissions) + 1

\* What a handler run adds to the record of its submission: the store write
\* it starts, the document stored, and each event it emits.
Trail(started, stored, out) ==
    (IF started THEN <<"write">> ELSE <<>>)
    \o (IF stored # {} THEN <<"persisted">> ELSE <<>>)
    \o [i \in 1..Len(out) |-> out[i].event]

\* The handler up to its first await that yields: validation, the actor and
\* createComment's id check; a rejected promise is caught in the same turn.
CommentCreate(s, designId, payload) ==
    /\ conn[s] = "live"
    /\ NewSubmission <= MaxSubmissions
    /\ LET sub == NewSubmission
           parsed == safeParse(payload)
           actor == CommentActor(presenceByDesign, designId, s)
           out == IF ~parsed.success
                  THEN <<EmitError(conn, s, "VALIDATION_ERROR", parsed.errors)>>
                  ELSE IF ~isValidObjectId(designId)
                  THEN <<EmitError(conn, s, "DESIGN_NOT_FOUND", {})>>
                  ELSE <<>>
           started == parsed.success /\ isValidObjectId(designId)
       IN  /\ lastEvent' = Event("comment:create", s, designId,
                                 [sub |-> sub, payload |-> payload])
           /\ emitted' = out
           /\ submissions' = MapSet(submissions, sub, Trail(started, {}, out))
           /\ pendingComments' =
                 IF started
                 THEN MapSet(pendingComments, sub,
                             [socket |-> s, designId |-> designId, actor |-> actor,
                              data |-> parsed.data])
                 ELSE pendingComments
    /\ UNCHANGED <<conn, rooms, presenceByDesign, membershipBySocket, comments>>
    /\ UNCHANGED <<storeVars, clientVars, panelVars>>

\* CommentModel.create settles, with the stored document or with an error.
CommentStoreDone(sub, ok) ==
    /\ MapHas(pendingComments, sub)
    /\ LET p == MapGet(pendingComments, sub)
           doc == CommentDoc(sub, p.designId, p.actor, p.data)
           done == StoreOutcome(ok, rooms, conn, p, doc)
       IN  /\ comments' = comments \cup done.stored
           /\ emitted' = done.out
           /\ lastEvent' = Event("comment:stored", p.socket, p.designId,
                                 [sub |-> sub, ok |-> ok])
           /\ submissions' = MapSet(submissions, sub,
                 MapGet(submissions, sub) \o Trail(FALSE, done.stored, done.out))
    /\ pendingComments' = MapDelete(pendingComments, sub)
    /\ UNCHANGED <<conn, rooms, presenceByDesign, membershipBySocket>>
    /\ UNCHANGED <<storeVars, clientVars, panelVars>>

CommentInit ==
    /\ comments = {}
    /\ pendingComments = EmptyMap
    /\ submissions = EmptyMap

\* The comment claims concern one room and two of the connections; the other
\* room's and connection's traffic is in Next.
CommentRooms == {"d1"}
CommentSockets == {"sA", "sB"}

CommentNext ==
    \/ \E s \in CommentSockets : Connect(s)
    \/ \E s \in CommentSockets, d \in CommentRooms : Join(s, d, UserOf[s])
    \/ \E s \in CommentSockets, d \in CommentRooms : Leave(s, d)
    \/ \E s \in CommentSockets : Disconnect(s)
    \/ \E s \in CommentSockets, d \in CommentRooms \cup {BadId}, p \in CommentPayloads :
          CommentCreate(s, d, p)
    \/ \E sub \in 1..MaxSubmissions, ok \in BOOLEAN : CommentStoreDone(sub, ok)

(***************************************************************************)
(* The comment panel of the editor page (DesignEditorPage.tsx): the        *)
(* composer with its @mentions, and the comment list fed by the            *)
(* comment:created event, the REST createComment response and the design   *)
(* load.  Text is a sequence of characters; "a" and "b" stand for the      *)
(* characters of [A-Za-z0-9_-], " " for white space.  The caret is at the  *)
(* end of the text.                                                        *)
(***************************************************************************)
MaxInput == 5
MaxPosts == 1

Alphabet == {"a", "b", "@", " "}
LabelChars == {"a", "b"}
PageUser == "u1"
PeerUser == "u2"

\* The users the composer can suggest: one whose id can also be typed as a
\* label, one whose name holds a space, one who shares a name with the first.
MentionableUsers ==
    { [id |-> <<"b">>, name |-> <<"a">>],
      [id |-> <<"id2">>, name |-> <<"a", " ", "b">>],
      [id |-> <<"id3">>, name |-> <<"a">>] }

RECURSIVE trimStart(_)
trimStart(text) ==
    IF text # <<>> /\ Head(text) = " " THEN trimStart(Tail(text)) ELSE text

RECURSIVE trimEnd(_)
trimEnd(text) ==
    IF text # <<>> /\ text[Len(text)] = " "
    THEN trimEnd(SubSeq(text, 1, Len(text) - 1)) ELSE text

\* String.prototype.trim
trim(text) == trimEnd(trimStart(text))

\* String.prototype.includes
includes(text, part) ==
    \E i \in 1..(Len(text) - Len(part) + 1) : SubSeq(text, i, i + Len(part) - 1) = part

\* The end of the run of label characters that starts at position i.
RECURSIVE RunEnd(_, _)
RunEnd(text, i) ==
    IF i < Len(text) /\ text[i + 1] \in LabelChars THEN RunEnd(text, i + 1) ELSE i

\* message.match(/@[A-Za-z0-9_\-]+/g) ?? [], scanning from position i.
RECURSIVE matchMentions(_, _)
matchMentions(message, i) ==
    IF i > Len(message) THEN <<>>
    ELSE IF message[i] = "@" /\ i < Len(message) /\ message[i + 1] \in LabelChars
         THEN LET j == RunEnd(message, i + 1)
              IN  <<SubSeq(message, i, j)>> \o matchMentions(message, j + 1)
         ELSE matchMentions(message, i + 1)

\* Array.prototype.find on the mention entities: the first with the label.
findEntity(entities, label) ==
    LET hits == {i \in 1..Len(entities) : entities[i].label = label}
    IN  IF hits = {} THEN <<>>
        ELSE <<entities[CHOOSE i \in hits : \A k \in hits : i <= k]>>

\* Mutant: every token contributes its literal label.
RECURSIVE mentionValuesLiteral(_, _, _)
mentionValuesLiteral(tokens, entities, values) ==
    IF tokens = <<>> THEN values
    ELSE LET value == Tail(Head(tokens))
         IN  mentionValuesLiteral(Tail(tokens), entities,
                IF \E i \in 1..Len(values) : values[i] = value THEN values
                ELSE Append(values, value))

\* mentionTokens.forEach: the value of each token, pushed unless included.
RECURSIVE mentionValues(_, _, _)
mentionValues(tokens, entities, values) ==
    IF tokens = <<>> THEN values
    ELSE LET label == Tail(Head(tokens))
             mapped == findEntity(entities, label)
             value == IF mapped # <<>> THEN mapped[1].id ELSE label
         IN  mentionValues(Tail(tokens), entities,
                IF \E i \in 1..Len(values) : values[i] = value THEN values
                ELSE Append(values, value))

\* findMentionTrigger(value, cursor): the "@" the caret is typing after.
findMentionTrigger(value, cursor) ==
    LET uptoCursor == SubSeq(value, 1, cursor)
        ats == {i \in 1..Len(uptoCursor) : uptoCursor[i] = "@"}
    IN  IF ats = {} THEN <<>>
        ELSE LET atIndex == CHOOSE i \in ats : \A k \in ats : k <= i
                 query == SubSeq(uptoCursor, atIndex + 1, Len(uptoCursor))
             IN  IF atIndex > 1 /\ uptoCursor[atIndex - 1] \in LabelChars THEN <<>>
                 ELSE IF \E i \in 1..Len(query) : query[i] \notin LabelChars THEN <<>>
                 ELSE <<[start |-> atIndex, end |-> cursor, query |-> query]>>

\* mentionOptions: the mentionable users whose name includes the query.
mentionOptions(st) ==
    IF st.mentionTrigger = <<>> THEN {}
    ELSE {option \in MentionableUsers : includes(option.name, st.mentionTrigger[1].query)}

\* The page's comment panel after the design has loaded.
LoadedPanel ==
    [commentInput |-> <<>>, mentionEntities |-> <<>>, mentionTrigger |-> <<>>,
     comments |-> <<>>, commentSubmitting |-> FALSE, commentError |-> "none",
     pendingCommentMessage |-> <<>>, connected |-> TRUE]

QuietWire ==
    [emits |-> <<>>, posts |-> <<>>, replies |-> {}, broadcasts |-> {},
     errors |-> 0, stored |-> <<>>, load |-> <<>>]

PanelInit ==
    /\ panel = LoadedPanel
    /\ wire = QuietWire

\* SelectSeq without a lambda: the entities whose "@label" is in the text.
RECURSIVE keptEntities(_, _)
keptEntities(entities, text) ==
    IF entities = <<>> THEN <<>>
    ELSE LET rest == keptEntities(Tail(entities), text)
         IN  IF includes(text, <<"@">> \o Head(entities).label)
             THEN <<Head(entities)>> \o rest ELSE rest

\* useEffect on commentInput: entities whose text is gone are dropped.
mentionEntitiesEffect(st) ==
    [st EXCEPT !.mentionEntities = keptEntities(@, st.commentInput)]

\* handleCommentInputChange, with the caret at the end of the new value.
handleCommentInputChange(st, value) ==
    mentionEntitiesEffect(
       [st EXCEPT !.commentInput = value,
                  !.mentionTrigger = findMentionTrigger(value, Len(value))])

RECURSIVE withoutLabel(_, _)
withoutLabel(entities, label) ==
    IF entities = <<>> THEN <<>>
    ELSE IF Head(entities).label = label THEN withoutLabel(Tail(entities), label)
         ELSE <<Head(entities)>> \o withoutLabel(Tail(entities), label)

\* handleMentionSelect(option)
handleMentionSelect(st, option) ==
    LET label == trim(option.name)
    IN  IF st.mentionTrigger = <<>> \/ label = <<>> THEN st
        ELSE LET trigger == st.mentionTrigger[1]
                 prev == st.commentInput
                 before == SubSeq(prev, 1, trigger.start - 1)
                 after == SubSeq(prev, trigger.end + 1, Len(prev))
                 needsTrailingSpace ==
                     IF after = <<>> \/ Head(after) = " " THEN <<>> ELSE <<" ">>
             IN  mentionEntitiesEffect(
                    [st EXCEPT !.commentInput =
                                   before \o <<"@">> \o label \o needsTrailingSpace \o after,
                               !.mentionEntities =
                                   Append(withoutLabel(@, label),
                                          [id |-> option.id, label |-> label]),
                               !.mentionTrigger = <<>>])

\* resetCommentInput
resetCommentInput(st) ==
    [st EXCEPT !.commentInput = <<>>, !.mentionEntities = <<>>, !.mentionTrigger = <<>>]

\* handleSubmitComment, up to its emit or its await: the new panel and the
\* request it sent, over the socket or over REST.
handleSubmitComment(st, hasToken) ==
    LET message == trim(st.commentInput)
        payload == [message |-> message,
                    mentions |-> mentionValues(matchMentions(message, 1),
                                               st.mentionEntities, <<>>)]
        cleared == [st EXCEPT !.commentError = "none"]
    IN  IF message = <<>> THEN [st |-> st, emit |-> <<>>, post |-> <<>>]
        ELSE IF st.connected
             THEN [st |-> [resetCommentInput(cleared) EXCEPT
                              !.commentSubmitting = TRUE,
                              !.pendingCommentMessage = <<message>>],
                   emit |-> <<payload>>, post |-> <<>>]
        ELSE IF ~hasToken
             THEN [st |-> [cleared EXCEPT !.commentError = "offline"],
                   emit |-> <<>>, post |-> <<>>]
        ELSE [st |-> [cleared EXCEPT !.commentSubmitting = TRUE],
              emit |-> <<>>, post |-> <<payload>>]

\* Mutant: the comment is appended whether or not the list holds its id.
appendCommentAlways(prev, comment) == Append(prev, comment)

\* setComments((prev) => prev.some(same _id) ? prev : [...prev, comment])
appendComment(prev, comment) ==
    IF \E i \in 1..Len(prev) : prev[i]._id = comment._id THEN prev
    ELSE Append(prev, comment)

\* handleSubmitComment after createComment has resolved or thrown.
handleCreateCommentResult(st, reply) ==
    IF reply.ok
    THEN [resetCommentInput(st) EXCEPT
             !.comments = appendComment(@, reply.comment),
             !.commentSubmitting = FALSE]
    ELSE [st EXCEPT !.commentError = "failed", !.commentSubmitting = FALSE]

\* Mutant: the echo is matched against the socket id, which is never the
\* stored authorId of a joined user.
handleCommentCreatedBySocketId(st, payload) ==
    IF payload.designId # "d1" THEN st
    ELSE LET listed == [st EXCEPT !.comments = appendComment(@, payload.comment)]
         IN  IF st.pendingCommentMessage # <<>> /\ payload.comment.authorId = "sA"
             THEN [listed EXCEPT !.pendingCommentMessage = <<>>,
                                 !.commentSubmitting = FALSE]
             ELSE listed

\* socket.on("comment:created", handleCommentCreated)
handleCommentCreated(st, payload) ==
    IF payload.designId # "d1" THEN st
    ELSE LET listed == [st EXCEPT !.comments = appendComment(@, payload.comment)]
         IN  IF st.pendingCommentMessage # <<>> /\ payload.comment.authorId = PageUser
             THEN [listed EXCEPT !.pendingCommentMessage = <<>>,
                                 !.commentSubmitting = FALSE]
             ELSE listed

\* socket.on("error", handleSocketError), for a payload with a message
handleSocketError(st) ==
    IF st.pendingCommentMessage # <<>>
    THEN [st EXCEPT !.commentError = "failed", !.pendingCommentMessage = <<>>,
                    !.commentSubmitting = FALSE]
    ELSE st

\* socket.on("disconnect", handleDisconnect)
handleDisconnect(st) ==
    IF st.pendingCommentMessage # <<>>
    THEN [st EXCEPT !.connected = FALSE, !.commentError = "lost",
                    !.pendingCommentMessage = <<>>, !.commentSubmitting = FALSE]
    ELSE [st EXCEPT !.connected = FALSE]

(***************************************************************************)
(* The editor page (DesignEditorPage.tsx): the state a design:patch merges *)
(* into, the local edits that broadcast, and the remote-patch handler.     *)
(* Each handler runs to completion; what it emits is recorded with the     *)
(* value applyingRemotePatchRef held at the emit.                          *)
(***************************************************************************)
MaxEdits == 2

MIN_ELEMENT_SIZE == 24

ClientSockets == {"sA", "sB"}
PageDesignId == "d1"
Null == "null"
ElementIds == {"e1", "e2"}
Names == {"n1", "n2"}
Positions == {90}

Element(id, x, y, width, height, zIndex) ==
    [id |-> id, x |-> x, y |-> y, width |-> width, height |-> height,
     rotation |-> 0, zIndex |-> zIndex]

\* The design both pages loaded: two elements on a 100 x 100 canvas.
LoadedElements == <<Element("e1", 0, 0, 40, 40, 0), Element("e2", 10, 10, 40, 40, 1)>>

clamp(value, min, max) ==
    IF value < min THEN min ELSE IF value > max THEN max ELSE value

Max(a, b) == IF a >= b THEN a ELSE b

\* Mutant: the elements keep the zIndex they came with.
normalizeElementsKeep(elements) == elements

\* normalizeElements: zIndex becomes the index in the array.
normalizeElements(elements) ==
    [i \in 1..Len(elements) |-> [elements[i] EXCEPT !.zIndex = i - 1]]

\* Mutant: only the position is bounded, the size is left as it is.
boundElementToCanvasPositionOnly(element, canvasWidth, canvasHeight) ==
    IF canvasWidth <= 0 \/ canvasHeight <= 0 THEN element
    ELSE [element EXCEPT !.x = clamp(element.x, 0, Max(canvasWidth - element.width, 0)),
                         !.y = clamp(element.y, 0, Max(canvasHeight - element.height, 0))]

\* boundElementToCanvas, for an element that carries its width and height.
boundElementToCanvas(element, canvasWidth, canvasHeight) ==
    IF canvasWidth <= 0 \/ canvasHeight <= 0 THEN element
    ELSE LET measuredWidth == Max(element.width, MIN_ELEMENT_SIZE)
             measuredHeight == Max(element.height, MIN_ELEMENT_SIZE)
             boundedWidth == clamp(measuredWidth, MIN_ELEMENT_SIZE, canvasWidth)
             boundedHeight == clamp(measuredHeight, MIN_ELEMENT_SIZE, canvasHeight)
             maxX == Max(canvasWidth - boundedWidth, 0)
             maxY == Max(canvasHeight - boundedHeight, 0)
         IN  [element EXCEPT !.x = clamp(element.x, 0, maxX),
                             !.y = clamp(element.y, 0, maxY),
                             !.width = boundedWidth,
                             !.height = boundedHeight]

boundElementsToCanvas(elements, canvasWidth, canvasHeight) ==
    IF canvasWidth <= 0 \/ canvasHeight <= 0 THEN elements
    ELSE [i \in 1..Len(elements) |->
             boundElementToCanvas(elements[i], canvasWidth, canvasHeight)]

\* elementsAreEqual: same length and element-wise equal serialisations.
elementsAreEqual(a, b) ==
    /\ Len(a) = Len(b)
    /\ \A i \in 1..Len(a) : a[i] = b[i]

\* A DesignRealtimePatch: `fields` are the keys it carries.
EmptyPatch ==
    [fields |-> {}, elements |-> <<>>, selectedElementId |-> Null,
     width |-> 0, height |-> 0, name |-> "", isPublic |-> FALSE]

SelectionPatch(nextId) ==
    [EmptyPatch EXCEPT !.fields = {"selectedElementId"}, !.selectedElementId = nextId]

ElementsPatch(elements) ==
    [EmptyPatch EXCEPT !.fields = {"elements"}, !.elements = elements]

NamePatch(value) == [EmptyPatch EXCEPT !.fields = {"name"}, !.name = value]

IsPublicPatch(isPublic) ==
    [EmptyPatch EXCEPT !.fields = {"isPublic"}, !.isPublic = isPublic]

MAX_HISTORY_ENTRIES == 50

\* An EditorSnapshot.
Snapshot(elements, width, height, selectedElementId, name, isPublic) ==
    [elements |-> elements, width |-> width, height |-> height,
     selectedElementId |-> selectedElementId, name |-> name, isPublic |-> isPublic]

\* captureSnapshot()
captureSnapshot(st) ==
    Snapshot(st.elements, st.draftWidth, st.draftHeight, st.selectedElementId,
             st.draftName, st.draftIsPublic)

\* toPersistedSnapshot(snapshot): the snapshot without the selection.
toPersistedSnapshot(snapshot) ==
    [elements |-> snapshot.elements, width |-> snapshot.width,
     height |-> snapshot.height, name |-> snapshot.name, isPublic |-> snapshot.isPublic]

\* persistedSnapshotsEqual(a, b)
persistedSnapshotsEqual(a, b) ==
    /\ a.width = b.width
    /\ a.height = b.height
    /\ a.name = b.name
    /\ a.isPublic = b.isPublic
    /\ elementsAreEqual(a.elements, b.elements)

NoSession == [kind |-> "none"]

RECURSIVE SortedInsert(_, _)
SortedInsert(sorted, element) ==
    IF sorted = <<>> THEN <<element>>
    ELSE IF element.zIndex < Head(sorted).zIndex THEN <<element>> \o sorted
    ELSE <<Head(sorted)>> \o SortedInsert(Tail(sorted), element)

RECURSIVE sortByZIndex(_)
\* sortByZIndex(elements): a stable sort by zIndex.
sortByZIndex(elements) ==
    IF elements = <<>> THEN <<>>
    ELSE SortedInsert(sortByZIndex(SubSeq(elements, 1, Len(elements) - 1)),
                      elements[Len(elements)])

\* The page after the load effect for a design of the given size: elements
\* sorted, normalised and bounded, the last element selected, the history
\* holding the initial snapshot, nothing dirty, connected and joined.
Loaded(elements, width, height) ==
    LET bounded == boundElementsToCanvas(normalizeElements(sortByZIndex(elements)),
                                         width, height)
        lastSelectedId == IF bounded = <<>> THEN Null ELSE bounded[Len(bounded)].id
        initialSnapshot == Snapshot(bounded, width, height, lastSelectedId, "n1", FALSE)
    IN  [elements |-> bounded,
         selectedElementId |-> lastSelectedId,
         draftWidth |-> width, draftHeight |-> height,
         draftName |-> "n1", draftIsPublic |-> FALSE,
         isDirty |-> FALSE,
         applyingRemotePatch |-> FALSE,
         connected |-> TRUE,
         past |-> <<initialSnapshot>>,
         future |-> <<>>,
         historyCheckpoint |-> FALSE,
         lastSavedSnapshot |-> toPersistedSnapshot(initialSnapshot),
         session |-> NoSession,
         pendingSave |-> <<>>,
         rendered |-> FALSE]

LoadedClient == Loaded(LoadedElements, 100, 100)

\* A handler run in progress: the page state and the emits so far.
Run(st, out) == [st |-> st, out |-> out]

\* broadcastDesignPatch(patch): emits unless the socket is not connected.
broadcastDesignPatch(r, patch) ==
    IF ~r.st.connected THEN r
    ELSE Run(r.st, Append(r.out, [patch |-> patch,
                                  applying |-> r.st.applyingRemotePatch]))

\* Mutant: neither the broadcast option nor the applying flag is looked at.
updateSelectedElementIdUnguarded(r, nextId, broadcast) ==
    IF r.st.selectedElementId = nextId THEN r
    ELSE broadcastDesignPatch(Run([r.st EXCEPT !.selectedElementId = nextId], r.out),
                              SelectionPatch(nextId))

\* updateSelectedElementId(nextId, { broadcast })
updateSelectedElementId(r, nextId, broadcast) ==
    IF r.st.selectedElementId = nextId THEN r
    ELSE LET r1 == Run([r.st EXCEPT !.selectedElementId = nextId], r.out)
         IN  IF ~broadcast THEN r1
             ELSE IF r1.st.applyingRemotePatch THEN r1
             ELSE broadcastDesignPatch(r1, SelectionPatch(nextId))

\* replaceElements(nextElements): bounds to the canvas, sets if different.
replaceElements(st, nextElements) ==
    LET bounded == boundElementsToCanvas(nextElements, st.draftWidth, st.draftHeight)
    IN  IF elementsAreEqual(st.elements, bounded) THEN st
        ELSE [st EXCEPT !.elements = bounded]

\* Mutant: at the cap the newest entry is the one dropped.
PushCappedDropsNewest(stack, snapshot) ==
    LET pushed == Append(stack, snapshot)
    IN  IF Len(pushed) > MAX_HISTORY_ENTRIES
        THEN SubSeq(pushed, 1, MAX_HISTORY_ENTRIES) ELSE pushed

\* history.past.push / history.future.push with the cap: the oldest goes.
PushCapped(stack, snapshot) ==
    LET pushed == Append(stack, snapshot)
    IN  IF Len(pushed) > MAX_HISTORY_ENTRIES THEN Tail(pushed) ELSE pushed

\* Mutant: a new entry leaves the redo stack as it is.
beginHistoryEntryKeepsFuture(st) ==
    IF st.historyCheckpoint THEN st
    ELSE [st EXCEPT !.past = PushCapped(@, captureSnapshot(st)),
                    !.historyCheckpoint = TRUE]

\* beginHistoryEntry()
beginHistoryEntry(st) ==
    IF st.historyCheckpoint THEN st
    ELSE [st EXCEPT !.past = PushCapped(@, captureSnapshot(st)),
                    !.future = <<>>,
                    !.historyCheckpoint = TRUE]

\* finalizeHistoryEntry()
finalizeHistoryEntry(st) == [st EXCEPT !.historyCheckpoint = FALSE]

\* The patch applySnapshot broadcasts: the fields that changed.
SnapshotPatch(changed, normalizedElements, nextSelected, snapshot) ==
    [fields |-> changed,
     elements |-> IF "elements" \in changed THEN normalizedElements ELSE <<>>,
     selectedElementId |-> IF "selectedElementId" \in changed THEN nextSelected ELSE Null,
     width |-> IF "width" \in changed THEN snapshot.width ELSE 0,
     height |-> IF "height" \in changed THEN snapshot.height ELSE 0,
     name |-> IF "name" \in changed THEN snapshot.name ELSE "",
     isPublic |-> IF "isPublic" \in changed THEN snapshot.isPublic ELSE FALSE]

\* applySnapshot(snapshot, { broadcast }); st0 is the rendered state the
\* callback closed over.
applySnapshot(r, snapshot, broadcast) ==
    LET st0 == r.st
        normalizedElements == normalizeElements(snapshot.elements)
        st1 == replaceElements(st0, normalizedElements)
        elementsChanged == st1.elements # st0.elements
        widthChanged == st0.draftWidth # snapshot.width
        heightChanged == st0.draftHeight # snapshot.height
        nameChanged == st0.draftName # snapshot.name
        visibilityChanged == st0.draftIsPublic # snapshot.isPublic
        st2 == [st1 EXCEPT !.draftWidth = snapshot.width,
                           !.draftHeight = snapshot.height,
                           !.draftName = snapshot.name,
                           !.draftIsPublic = snapshot.isPublic]
        hasSelected == \E i \in 1..Len(normalizedElements) :
                          normalizedElements[i].id = snapshot.selectedElementId
        nextSelected == IF hasSelected THEN snapshot.selectedElementId
                        ELSE IF normalizedElements = <<>> THEN Null
                        ELSE normalizedElements[Len(normalizedElements)].id
        previousSelected == st0.selectedElementId
        r3 == updateSelectedElementId(Run(st2, r.out), nextSelected, FALSE)
        r4 == Run([r3.st EXCEPT !.isDirty = TRUE], r3.out)
        selectionChanged == previousSelected # nextSelected
        changed == (IF elementsChanged THEN {"elements"} ELSE {})
                   \cup (IF selectionChanged THEN {"selectedElementId"} ELSE {})
                   \cup (IF widthChanged THEN {"width"} ELSE {})
                   \cup (IF heightChanged THEN {"height"} ELSE {})
                   \cup (IF nameChanged THEN {"name"} ELSE {})
                   \cup (IF visibilityChanged THEN {"isPublic"} ELSE {})
        patch == SnapshotPatch(changed, normalizedElements, nextSelected, snapshot)
    IN  IF ~broadcast THEN r4
        ELSE IF r4.st.applyingRemotePatch THEN r4
        ELSE IF patch.fields = {} THEN r4
        ELSE broadcastDesignPatch(r4, patch)

\* Mutant: undo gives up only when the past stack is empty.
handleUndoToEmpty(st) ==
    IF Len(st.past) = 0 THEN Run(st, <<>>)
    ELSE LET currentSnapshot == captureSnapshot(st)
             previousSnapshot == st.past[Len(st.past)]
             st1 == [st EXCEPT !.past = SubSeq(@, 1, Len(@) - 1),
                               !.future = PushCapped(@, currentSnapshot),
                               !.historyCheckpoint = FALSE]
         IN  applySnapshot(Run(st1, <<>>), previousSnapshot, TRUE)

\* handleUndo()
handleUndo(st) ==
    IF Len(st.past) <= 1 THEN Run(st, <<>>)
    ELSE LET currentSnapshot == captureSnapshot(st)
             previousSnapshot == st.past[Len(st.past)]
             st1 == [st EXCEPT !.past = SubSeq(@, 1, Len(@) - 1),
                               !.future = PushCapped(@, currentSnapshot),
                               !.historyCheckpoint = FALSE]
         IN  applySnapshot(Run(st1, <<>>), previousSnapshot, TRUE)

\* handleRedo()
handleRedo(st) ==
    IF Len(st.future) = 0 THEN Run(st, <<>>)
    ELSE LET currentSnapshot == captureSnapshot(st)
             nextSnapshot == st.future[Len(st.future)]
             st1 == [st EXCEPT !.future = SubSeq(@, 1, Len(@) - 1),
                               !.past = PushCapped(@, currentSnapshot),
                               !.historyCheckpoint = FALSE]
         IN  applySnapshot(Run(st1, <<>>), nextSnapshot, TRUE)

\* Mutant: the patch is taken as a whole state, absent fields included.
handlePatchEventOverwrite(st, payload) ==
    IF payload.designId # PageDesignId THEN Run(st, <<>>)
    ELSE Run([st EXCEPT !.elements = normalizeElements(payload.patch.elements),
                        !.selectedElementId = payload.patch.selectedElementId,
                        !.draftWidth = payload.patch.width,
                        !.draftHeight = payload.patch.height,
                        !.draftName = payload.patch.name,
                        !.draftIsPublic = payload.patch.isPublic,
                        !.isDirty = TRUE], <<>>)

\* Mutant: a page with unsaved local edits keeps its own elements, ignoring
\* the elements of a relayed patch.
handlePatchEventKeepLocal(st, payload) ==
    IF payload.designId # PageDesignId THEN Run(st, <<>>)
    ELSE LET patch == payload.patch
             r0 == Run([st EXCEPT !.applyingRemotePatch = TRUE], <<>>)
             r1 == IF "elements" \in patch.fields /\ ~st.isDirty
                   THEN Run(replaceElements(r0.st, normalizeElements(patch.elements)), r0.out)
                   ELSE r0
             r2 == IF "selectedElementId" \in patch.fields
                   THEN updateSelectedElementId(r1, patch.selectedElementId, FALSE)
                   ELSE r1
         IN  Run([r2.st EXCEPT !.isDirty = TRUE, !.applyingRemotePatch = FALSE], r2.out)

\* handlePatchEvent(payload)
handlePatchEvent(st, payload) ==
    IF payload.designId # PageDesignId THEN Run(st, <<>>)
    ELSE LET patch == payload.patch
             r0 == Run([st EXCEPT !.applyingRemotePatch = TRUE], <<>>)
             r1 == IF "elements" \in patch.fields
                   THEN Run(replaceElements(r0.st, normalizeElements(patch.elements)), r0.out)
                   ELSE r0
             r2 == IF "selectedElementId" \in patch.fields
                   THEN updateSelectedElementId(r1, patch.selectedElementId, FALSE)
                   ELSE r1
             st3 == [r2.st EXCEPT
                        !.draftWidth = IF "width" \in patch.fields THEN patch.width ELSE @,
                        !.draftHeight = IF "height" \in patch.fields THEN patch.height ELSE @,
                        !.draftName = IF "name" \in patch.fields THEN patch.name ELSE @,
                        !.draftIsPublic = IF "isPublic" \in patch.fields
                                          THEN patch.isPublic ELSE @,
                        !.isDirty = TRUE,
                        !.applyingRemotePatch = FALSE]
         IN  Run(st3, r2.out)

\* The updaters applyElementsUpdate is called with: move an element, delete one.
Updaters ==
    [kind : {"move"}, id : ElementIds, to : Positions]
    \cup [kind : {"delete"}, id : ElementIds, to : {0}]

RECURSIVE Without(_, _)
Without(elements, id) ==
    IF elements = <<>> THEN <<>>
    ELSE IF Head(elements).id = id THEN Without(Tail(elements), id)
    ELSE <<Head(elements)>> \o Without(Tail(elements), id)

\* The element with the given id, or none.
HasElement(elements, id) == \E i \in 1..Len(elements) : elements[i].id = id

ElementById(elements, id) ==
    elements[CHOOSE i \in 1..Len(elements) : elements[i].id = id]

\* The updater of handleReorderElement: the element swaps with its neighbour.
Reordered(prev, id, direction) ==
    IF ~HasElement(prev, id) THEN prev
    ELSE LET index == CHOOSE i \in 1..Len(prev) : prev[i].id = id
             targetIndex == IF direction = "up" THEN index + 1 ELSE index - 1
         IN  IF targetIndex < 1 \/ targetIndex > Len(prev) THEN prev
             ELSE [i \in 1..Len(prev) |->
                      IF i = index THEN prev[targetIndex]
                      ELSE IF i = targetIndex THEN prev[index]
                      ELSE prev[i]]

\* The updaters applyElementsUpdate is called with, applied to the previous
\* array: handleDeleteElement, handleAddElement, handleReorderElement,
\* handleElementChange, and a move of an element to a point.
ApplyUpdater(u, prev) ==
    IF u.kind = "delete" THEN Without(prev, u.id)
    ELSE IF u.kind = "add" THEN Append(prev, u.element)
    ELSE IF u.kind = "reorder" THEN Reordered(prev, u.id, u.direction)
    ELSE IF u.kind = "change"
    THEN [i \in 1..Len(prev) |->
             IF prev[i].id = u.id THEN [prev[i] EXCEPT ![u.key] = u.value]
             ELSE prev[i]]
    ELSE [i \in 1..Len(prev) |->
             IF prev[i].id = u.id THEN [prev[i] EXCEPT !.x = u.to, !.y = u.to]
             ELSE prev[i]]

\* applyElementsUpdate(updater).  React runs the setElements updater at once
\* when the component has no update queued (eager) and otherwise at the next
\* render, after the handler has read nextElements as null.
applyElementsUpdate(st, u, eager) ==
    LET st0 == beginHistoryEntry(st)
        bounded == boundElementsToCanvas(normalizeElements(ApplyUpdater(u, st0.elements)),
                                         st0.draftWidth, st0.draftHeight)
        r0 == Run(st0, <<>>)
        r1 == IF st0.selectedElementId # Null
                 /\ \A i \in 1..Len(bounded) : bounded[i].id # st0.selectedElementId
              THEN updateSelectedElementId(r0,
                      IF bounded = <<>> THEN Null ELSE bounded[Len(bounded)].id, TRUE)
              ELSE r0
        r2 == Run([r1.st EXCEPT !.isDirty = TRUE, !.elements = bounded,
                                !.rendered = TRUE], r1.out)
        r3 == IF eager /\ ~r2.st.applyingRemotePatch
              THEN broadcastDesignPatch(r2, ElementsPatch(bounded))
              ELSE r2
    IN  Run(finalizeHistoryEntry(r3.st), r3.out)

\* handleNameChange(event)
handleNameChange(st, value) ==
    LET r == Run([st EXCEPT !.draftName = value, !.isDirty = TRUE], <<>>)
    IN  IF ~r.st.applyingRemotePatch THEN broadcastDesignPatch(r, NamePatch(value)) ELSE r

\* handleTogglePublic(isPublic)
handleTogglePublic(st, isPublic) ==
    LET r == Run([st EXCEPT !.draftIsPublic = isPublic, !.isDirty = TRUE], <<>>)
    IN  IF ~r.st.applyingRemotePatch THEN broadcastDesignPatch(r, IsPublicPatch(isPublic))
        ELSE r

\* handleElementSelection(id), and the canvas click that clears the selection
handleElementSelection(st, id) == updateSelectedElementId(Run(st, <<>>), id, TRUE)

(***************************************************************************)
(* The editing gestures of the page: pointer drag and resize, add, delete, *)
(* reorder and style change of elements, undo and redo, and save.          *)
(***************************************************************************)
\* handleElementPointerDown(event, element): opens a history entry, selects
\* the element and starts a drag session.
handleElementPointerDown(st, id) ==
    LET element == ElementById(st.elements, id)
        r1 == updateSelectedElementId(Run(beginHistoryEntry(st), <<>>), id, TRUE)
    IN  Run([r1.st EXCEPT !.session = [kind |-> "drag", id |-> id,
                                        startX |-> element.x, startY |-> element.y]],
            r1.out)

Handles ==
    {"top-left", "top", "top-right", "right", "bottom-right", "bottom", "bottom-left",
     "left"}

\* handleResizeHandlePointerDown(event, element, handle)
handleResizeHandlePointerDown(st, id, handle) ==
    LET element == ElementById(st.elements, id)
        r1 == updateSelectedElementId(Run(beginHistoryEntry(st), <<>>), id, TRUE)
    IN  Run([r1.st EXCEPT !.session =
                [kind |-> "resize", id |-> id, handle |-> handle,
                 startX |-> element.x, startY |-> element.y,
                 startWidth |-> element.width, startHeight |-> element.height]],
            r1.out)

\* The setElements updater of a drag step of handlePointerMove.
DragUpdated(st, deltaX, deltaY) ==
    LET drag == st.session
    IN  [i \in 1..Len(st.elements) |->
            LET element == st.elements[i]
                nextX == clamp(drag.startX + deltaX, -element.width, st.draftWidth)
                nextY == clamp(drag.startY + deltaY, -element.height, st.draftHeight)
            IN  IF element.id # drag.id THEN element
                ELSE IF nextX # element.x \/ nextY # element.y
                THEN [element EXCEPT !.x = nextX, !.y = nextY]
                ELSE element]

\* The end of a pointer-move step: the new array is rendered; the handler
\* marks the page dirty and broadcasts only when it saw the updater run.
MoveOutcome(st, updated, eager) ==
    LET changed == updated # st.elements
        next == IF changed
                THEN boundElementsToCanvas(normalizeElements(updated),
                                           st.draftWidth, st.draftHeight)
                ELSE updated
        st1 == [st EXCEPT !.elements = next, !.rendered = TRUE]
        r1 == Run(st1, <<>>)
    IN  IF ~(eager /\ changed) THEN r1
        ELSE LET r2 == Run([st1 EXCEPT !.isDirty = TRUE], <<>>)
             IN  IF ~r2.st.applyingRemotePatch
                 THEN broadcastDesignPatch(r2, ElementsPatch(next))
                 ELSE r2

clampDimension(value, minimum) == IF value < minimum THEN minimum ELSE value

\* applyResizeFromPointer(session, event) for an element that is not rotated:
\* the candidate size and position for the handle dragged by (deltaX, deltaY).
ResizeCandidate(session, deltaX, deltaY) ==
    LET handle == session.handle
        growsLeft == handle \in {"top-left", "left", "bottom-left"}
        growsRight == handle \in {"top-right", "right", "bottom-right"}
        growsUp == handle \in {"top-left", "top", "top-right"}
        growsDown == handle \in {"bottom-left", "bottom", "bottom-right"}
        widthCandidate ==
            IF growsLeft THEN clampDimension(session.startWidth - deltaX, MIN_ELEMENT_SIZE)
            ELSE IF growsRight
            THEN clampDimension(session.startWidth + deltaX, MIN_ELEMENT_SIZE)
            ELSE session.startWidth
        heightCandidate ==
            IF growsUp THEN clampDimension(session.startHeight - deltaY, MIN_ELEMENT_SIZE)
            ELSE IF growsDown
            THEN clampDimension(session.startHeight + deltaY, MIN_ELEMENT_SIZE)
            ELSE session.startHeight
        newX == IF growsLeft THEN session.startX + (session.startWidth - widthCandidate)
                ELSE session.startX
        newY == IF growsUp THEN session.startY + (session.startHeight - heightCandidate)
                ELSE session.startY
    IN  [width |-> widthCandidate, height |-> heightCandidate, x |-> newX, y |-> newY]

\* The setElements updater of a resize step.
ResizeUpdated(st, deltaX, deltaY) ==
    LET candidate == ResizeCandidate(st.session, deltaX, deltaY)
        clampedX == clamp(candidate.x, -candidate.width, st.draftWidth)
        clampedY == clamp(candidate.y, -candidate.height, st.draftHeight)
    IN  [i \in 1..Len(st.elements) |->
            LET element == st.elements[i]
            IN  IF element.id # st.session.id THEN element
                ELSE IF /\ element.x = clampedX
                        /\ element.y = clampedY
                        /\ element.width = candidate.width
                        /\ element.height = candidate.height
                THEN element
                ELSE [element EXCEPT !.x = clampedX, !.y = clampedY,
                                     !.width = candidate.width,
                                     !.height = candidate.height]]

\* handleRotatePointerDown(event, element)
handleRotatePointerDown(st, id) ==
    LET element == ElementById(st.elements, id)
        r1 == updateSelectedElementId(Run(beginHistoryEntry(st), <<>>), id, TRUE)
    IN  Run([r1.st EXCEPT !.session = [kind |-> "rotate", id |-> id,
                                        startRotation |-> element.rotation]],
            r1.out)

\* The setElements updater of applyRotateFromPointer, for a pointer that has
\* swept deltaAngle whole degrees around the element's centre (a whole number
\* of degrees differs from the previous rotation by 0 or by at least 1).
RotateUpdated(st, deltaAngle) ==
    LET nextRotation == (((st.session.startRotation + deltaAngle) % 360) + 360) % 360
    IN  [i \in 1..Len(st.elements) |->
            LET element == st.elements[i]
            IN  IF element.id # st.session.id THEN element
                ELSE IF element.rotation = nextRotation THEN element
                ELSE [element EXCEPT !.rotation = nextRotation]]

\* A pointer position during a gesture: its offset from the pointer-down
\* position, and the angle swept around the element's centre.
PointerMove(deltaX, deltaY, deltaAngle) ==
    [deltaX |-> deltaX, deltaY |-> deltaY, deltaAngle |-> deltaAngle]

\* handlePointerMove(event): a drag step, a resize step or a rotate step.
handlePointerMove(st, move, eager) ==
    IF st.session.kind = "drag"
    THEN MoveOutcome(st, DragUpdated(st, move.deltaX, move.deltaY), eager)
    ELSE IF st.session.kind = "resize"
    THEN MoveOutcome(st, ResizeUpdated(st, move.deltaX, move.deltaY), eager)
    ELSE IF st.session.kind = "rotate"
    THEN MoveOutcome(st, RotateUpdated(st, move.deltaAngle), eager)
    ELSE Run(st, <<>>)

\* handlePointerEnd(event)
handlePointerEnd(st) ==
    IF st.session.kind = "none" THEN Run(st, <<>>)
    ELSE Run(finalizeHistoryEntry([st EXCEPT !.session = NoSession]), <<>>)

\* The element handleAddElement builds: a shape of the default size, centred
\* on the canvas (sizes are even, so the halves are whole).
NewElement(st, id) ==
    LET width == 220
        height == 220
        baseX == Max((st.draftWidth - width) \div 2, 0)
        baseY == Max((st.draftHeight - height) \div 2, 0)
    IN  Element(id, baseX, baseY, width, height, Len(st.elements))

\* handleAddElement(type): appends the element, then selects it.
handleAddElement(st, id, eager) ==
    LET r == applyElementsUpdate(st, [kind |-> "add", element |-> NewElement(st, id)], eager)
    IN  updateSelectedElementId(r, id, TRUE)

\* handleSave(): the request body, taken from the rendered state.
SavePayload(st) ==
    [name |-> st.draftName, width |-> st.draftWidth, height |-> st.draftHeight,
     elements |-> st.elements, isPublic |-> st.draftIsPublic]

\* handleSave() up to the await: the request is in flight.
handleSave(st) == Run([st EXCEPT !.pendingSave = <<SavePayload(st)>>], <<>>)

\* handleSave() when updateDesign rejects: only the error message is set.
handleSaveFailure(st) == Run([st EXCEPT !.pendingSave = <<>>], <<>>)

\* handleSave() after the response: the page takes the returned design and
\* makes it the persisted baseline.
handleSaveResponse(st, detail) ==
    LET bounded == boundElementsToCanvas(normalizeElements(sortByZIndex(detail.elements)),
                                         detail.width, detail.height)
    IN  Run([st EXCEPT !.elements = bounded,
                       !.draftName = detail.name,
                       !.draftIsPublic = detail.isPublic,
                       !.draftWidth = detail.width,
                       !.draftHeight = detail.height,
                       !.isDirty = FALSE,
                       !.pendingSave = <<>>,
                       !.rendered = TRUE,
                       !.lastSavedSnapshot =
                           toPersistedSnapshot(
                              Snapshot(bounded, detail.width, detail.height,
                                       st.selectedElementId, detail.name, detail.isPublic))],
            <<>>)

\* The room of the page's design, as the relay holds it.
ClientRooms(cl) ==
    [d \in RoomIds |-> IF d = PageDesignId THEN {c \in ClientSockets : cl[c].connected}
                       ELSE {}]

RECURSIVE Relayed(_, _, _, _)
\* The relay's deliveries for the emits of one handler run, appended to the
\* inbox of every connection relayPatch targets.
Relayed(box, cl, c, out) ==
    IF out = <<>> THEN box
    ELSE LET payload == [designId |-> PageDesignId, actorId |-> UserOf[c],
                         patch |-> Head(out).patch]
             to == relayPatch(ClientRooms(cl), c, payload).to
         IN  Relayed([x \in ClientSockets |->
                         IF x \in to THEN Append(box[x], payload) ELSE box[x]],
                     cl, c, Tail(out))

\* A handler of client c has run: its new state, its emits and their relay.
\* The render after a handler and the dirty-tracking effect: it runs when
\* captureSnapshot or designMeta has a new identity, and then sets isDirty by
\* comparing the current state with the last persisted snapshot.
DirtyEffect(before, after) ==
    LET settled == [after EXCEPT !.rendered = FALSE]
    IN  IF after.rendered \/ captureSnapshot(after) # captureSnapshot(before)
        THEN [settled EXCEPT !.isDirty =
                 ~persistedSnapshotsEqual(after.lastSavedSnapshot,
                                          toPersistedSnapshot(captureSnapshot(after)))]
        ELSE settled

ClientStep(type, c, r, edit) ==
    /\ clients' = [clients EXCEPT ![c] = DirtyEffect(clients[c], r.st)]
    /\ clientEvent' = [type |-> type, client |-> c, out |-> r.out,
                       changed |-> [r.st EXCEPT !.rendered = FALSE] # clients[c]]
    /\ sent' = sent + Len(r.out)
    /\ edits' = edits + (IF edit THEN 1 ELSE 0)
    /\ UNCHANGED <<sockVars, storeVars, commentVars, panelVars>>

LocalEdit(type, c, r) ==
    /\ edits < MaxEdits
    /\ ClientStep(type, c, r, TRUE)
    /\ inbox' = Relayed(inbox, clients, c, r.out)

ClientSelect(c, id) ==
    LocalEdit("select", c, handleElementSelection(clients[c], id))

ClientRename(c, value) ==
    LocalEdit("rename", c, handleNameChange(clients[c], value))

ClientTogglePublic(c, isPublic) ==
    LocalEdit("togglePublic", c, handleTogglePublic(clients[c], isPublic))

ClientEditElements(c, u, eager) ==
    LocalEdit("elements", c, applyElementsUpdate(clients[c], u, eager))

\* socket.on("design:patch", handlePatchEvent): the oldest relayed patch.
ClientReceivePatch(c) ==
    /\ inbox[c] # <<>>
    /\ LET r == handlePatchEvent(clients[c], Head(inbox[c]))
       IN  /\ ClientStep("design:patch", c, r, FALSE)
           /\ inbox' = Relayed([inbox EXCEPT ![c] = Tail(@)], clients, c, r.out)

\* The socket drops (the relay stops delivering to it) and reconnects.
ClientConnection(c, up) ==
    /\ clients[c].connected # up
    /\ ClientStep(IF up THEN "connect" ELSE "disconnect", c,
                  Run([clients[c] EXCEPT !.connected = up], <<>>), FALSE)
    /\ inbox' = inbox

ClientInit ==
    /\ clients = [c \in ClientSockets |-> LoadedClient]
    /\ inbox = [c \in ClientSockets |-> <<>>]
    /\ clientEvent = [type |-> "none", client |-> NoSocket, out |-> <<>>, changed |-> FALSE]
    /\ edits = 0
    /\ sent = 0
    /\ PanelInit

ClientNext ==
    \/ \E c \in ClientSockets, id \in ElementIds \cup {Null} : ClientSelect(c, id)
    \/ \E c \in ClientSockets, v \in Names : ClientRename(c, v)
    \/ \E c \in ClientSockets, b \in BOOLEAN : ClientTogglePublic(c, b)
    \/ \E c \in ClientSockets, u \in {x \in Updaters : x.id = "e1"}, eager \in BOOLEAN :
          ClientEditElements(c, u, eager)
    \/ \E c \in ClientSockets : ClientReceivePatch(c)
    \/ \E c \in ClientSockets, up \in BOOLEAN : ClientConnection(c, up)

(***************************************************************************)
(* One editor page with its gestures.  The other members of the room are   *)
(* not modelled as pages here: their patches arrive as RemotePatches, and  *)
(* the patches this page emits are recorded in clientEvent.                *)
(***************************************************************************)
MaxSteps == 3
MaxEntries == 51

Editor == "sA"

\* The designs the page is opened on: the two-element design, a design whose
\* stored zIndex values are neither dense nor in array order, and a design
\* whose canvas is smaller than the minimum element size.
StoredDesigns ==
    { [elements |-> LoadedElements, width |-> 100, height |-> 100],
      [elements |-> <<Element("e1", 70, 0, 40, 40, 7), Element("e2", 10, 10, 40, 40, 3)>>,
       width |-> 100, height |-> 100],
      [elements |-> <<Element("e1", 0, 0, 40, 40, 0)>>, width |-> 20, height |-> 300] }

\* The pointer positions of a gesture: a short move, a move far outside the
\* canvas, and the position of the pointer-down itself.
PointerMoves ==
    { PointerMove(30, 0, 90), PointerMove(-200, 500, 450), PointerMove(0, 0, 0) }

ResizeHandles == {"top-left", "bottom-right", "right", "top"}

\* The style changes of handleElementChange.
ElementChanges == [kind : {"change"}, id : ElementIds, key : {"x"}, value : {20}]

\* The patches other members send: each field alone, a selection of the
\* element already selected after load, and a patch of several fields.
RemotePatches ==
    { SelectionPatch("e1"), SelectionPatch("e2"), SelectionPatch(Null),
      NamePatch("n2"), IsPublicPatch(TRUE),
      ElementsPatch(<<Element("e2", 500, 10, 40, 40, 4)>>),
      [EmptyPatch EXCEPT !.fields = {"width"}, !.width = 60],
      [EmptyPatch EXCEPT !.fields = {"height"}, !.height = 60],
      [EmptyPatch EXCEPT !.fields = {"width", "height", "name"},
                         !.width = 200, !.height = 200, !.name = "n2"] }

\* A handler of the editor page has run, followed by the render and the
\* dirty-tracking effect.
EditorHandled(type, r) ==
    /\ clients' = [clients EXCEPT ![Editor] = DirtyEffect(clients[Editor], r.st)]
    /\ clientEvent' = [type |-> type, client |-> Editor, out |-> r.out,
                       changed |-> [r.st EXCEPT !.rendered = FALSE] # clients[Editor],
                       redoable |-> Len(clients[Editor].future)]
    /\ UNCHANGED <<inbox, sent>>
    /\ UNCHANGED <<sockVars, storeVars, commentVars, panelVars>>

\* One of at most `limit` handler runs.
EditorStep(type, r, limit) ==
    /\ edits < limit
    /\ EditorHandled(type, r)
    /\ edits' = edits + 1

\* A click on an element of the page, or on the empty canvas (Null).
EditorSelect(id, limit) ==
    /\ id = Null \/ HasElement(clients[Editor].elements, id)
    /\ EditorStep("select", handleElementSelection(clients[Editor], id), limit)

EditorRename(value, limit) ==
    EditorStep("rename", handleNameChange(clients[Editor], value), limit)

EditorTogglePublic(isPublic, limit) ==
    EditorStep("togglePublic", handleTogglePublic(clients[Editor], isPublic), limit)

EditorPointerDown(id, limit) ==
    /\ HasElement(clients[Editor].elements, id)
    /\ clients[Editor].session = NoSession
    /\ EditorStep("pointerdown", handleElementPointerDown(clients[Editor], id), limit)

\* The handles are drawn on the selected element; resizing is started on
\* elements that are not rotated.
EditorResizeDown(id, handle, limit) ==
    /\ HasElement(clients[Editor].elements, id)
    /\ clients[Editor].selectedElementId = id
    /\ ElementById(clients[Editor].elements, id).rotation = 0
    /\ clients[Editor].session = NoSession
    /\ EditorStep("resizedown",
                  handleResizeHandlePointerDown(clients[Editor], id, handle), limit)

EditorRotateDown(id, limit) ==
    /\ HasElement(clients[Editor].elements, id)
    /\ clients[Editor].selectedElementId = id
    /\ clients[Editor].session = NoSession
    /\ EditorStep("rotatedown", handleRotatePointerDown(clients[Editor], id), limit)

EditorPointerMove(move, eager, limit) ==
    /\ clients[Editor].session # NoSession
    /\ EditorStep(clients[Editor].session.kind,
                  handlePointerMove(clients[Editor], move, eager), limit)

EditorPointerEnd(limit) ==
    /\ clients[Editor].session # NoSession
    /\ EditorStep("pointerup", handlePointerEnd(clients[Editor]), limit)

EditorAdd(id, eager, limit) ==
    /\ ~HasElement(clients[Editor].elements, id)
    /\ clients[Editor].session = NoSession
    /\ EditorStep("add", handleAddElement(clients[Editor], id, eager), limit)

\* The layer list offers delete and reorder for every element, the inspector
\* offers style changes for the selected one.
EditorUpdate(type, u, eager, limit) ==
    /\ HasElement(clients[Editor].elements, u.id)
    /\ type = "change" => clients[Editor].selectedElementId = u.id
    /\ clients[Editor].session = NoSession
    /\ EditorStep(type, applyElementsUpdate(clients[Editor], u, eager), limit)

EditorUndo(limit) ==
    /\ clients[Editor].session = NoSession
    /\ EditorStep("undo", handleUndo(clients[Editor]), limit)

EditorRedo(limit) ==
    /\ clients[Editor].session = NoSession
    /\ EditorStep("redo", handleRedo(clients[Editor]), limit)

\* The Save button is disabled while saving and while nothing is dirty.
EditorSave(limit) ==
    /\ clients[Editor].pendingSave = <<>>
    /\ clients[Editor].isDirty
    /\ EditorStep("save", handleSave(clients[Editor]), limit)

\* The response of updateDesign: the design as it was sent, or an error.
EditorSaveResponse(ok, limit) ==
    /\ clients[Editor].pendingSave # <<>>
    /\ EditorStep(IF ok THEN "saved" ELSE "saveFailed",
                  IF ok THEN handleSaveResponse(clients[Editor], Head(clients[Editor].pendingSave))
                  ELSE handleSaveFailure(clients[Editor]), limit)

EditorRemotePatch(patch, limit) ==
    EditorStep("design:patch",
               handlePatchEvent(clients[Editor],
                                [designId |-> PageDesignId, actorId |-> "u2",
                                 patch |-> patch]), limit)

\* The page has loaded one of the stored designs.
EditorInit ==
    /\ SockInit /\ StoreInit /\ CommentInit
    /\ \E d \in StoredDesigns :
          clients = [c \in ClientSockets |->
                        IF c = Editor THEN Loaded(d.elements, d.width, d.height)
                        ELSE LoadedClient]
    /\ inbox = [c \in ClientSockets |-> <<>>]
    /\ clientEvent = [type |-> "load", client |-> Editor, out |-> <<>>, changed |-> FALSE,
                      redoable |-> 0]
    /\ edits = 0
    /\ sent = 0
    /\ PanelInit

EditorNext ==
    \/ \E id \in ElementIds \cup {Null} : EditorSelect(id, MaxSteps)
    \/ EditorRename("n2", MaxSteps)
    \/ EditorTogglePublic(TRUE, MaxSteps)
    \/ \E id \in ElementIds : EditorPointerDown(id, MaxSteps)
    \/ \E id \in ElementIds, h \in ResizeHandles : EditorResizeDown(id, h, MaxSteps)
    \/ \E id \in ElementIds : EditorRotateDown(id, MaxSteps)
    \/ \E m \in PointerMoves, eager \in BOOLEAN : EditorPointerMove(m, eager, MaxSteps)
    \/ EditorPointerEnd(MaxSteps)
    \/ \E eager \in BOOLEAN : EditorAdd("e3", eager, MaxSteps)
    \/ \E id \in ElementIds, eager \in BOOLEAN :
          EditorUpdate("delete", [kind |-> "delete", id |-> id], eager, MaxSteps)
    \/ \E direction \in {"up", "down"}, eager \in BOOLEAN :
          EditorUpdate("reorder", [kind |-> "reorder", id |-> "e1",
                                   direction |-> direction], eager, MaxSteps)
    \/ \E u \in ElementChanges, eager \in BOOLEAN : EditorUpdate("change", u, eager, MaxSteps)
    \/ EditorUndo(MaxSteps)
    \/ EditorRedo(MaxSteps)
    \/ EditorSave(MaxSteps)
    \/ \E ok \in BOOLEAN : EditorSaveResponse(ok, MaxSteps)
    \/ \E patch \in RemotePatches : EditorRemotePatch(patch, MaxSteps)

(***************************************************************************)
(* The history of one page over a long run: every edit is a style change   *)
(* of its own entry that gives the element an x it never had, and `edits`  *)
(* counts the entries recorded since the load.  Edits are made while       *)
(* nothing is undone, so the entries are consecutive.                      *)
(***************************************************************************)
HistoryDesign == [elements |-> <<Element("e1", 0, 0, 40, 40, 0)>>, width |-> 100, height |-> 100]

HistoryEdit ==
    /\ clients[Editor].future = <<>>
    /\ EditorStep("change",
                  applyElementsUpdate(clients[Editor],
                                      [kind |-> "change", id |-> "e1", key |-> "x",
                                       value |-> edits + 1], TRUE),
                  MaxEntries)

HistoryUndo ==
    /\ EditorHandled("undo", handleUndo(clients[Editor]))
    /\ UNCHANGED edits

HistoryRedo ==
    /\ EditorHandled("redo", handleRedo(clients[Editor]))
    /\ UNCHANGED edits

HistoryInit ==
    /\ SockInit /\ StoreInit /\ CommentInit
    /\ clients = [c \in ClientSockets |->
                     IF c = Editor
                     THEN Loaded(HistoryDesign.elements, HistoryDesign.width,
                                 HistoryDesign.height)
                     ELSE LoadedClient]
    /\ inbox = [c \in ClientSockets |-> <<>>]
    /\ clientEvent = [type |-> "load", client |-> Editor, out |-> <<>>, changed |-> FALSE,
                      redoable |-> 0]
    /\ edits = 0
    /\ sent = 0
    /\ PanelInit

HistoryNext == HistoryEdit \/ HistoryUndo \/ HistoryRedo

(***************************************************************************)
(* A drag seen from a second page.  The editor drags an element of the     *)
(* design both pages have loaded; the relay delivers the patches of the    *)
(* drag, in order, to the other page, which makes no edit of its own.      *)
(***************************************************************************)
MaxDragSteps == 4

Watcher == "sB"

\* One of at most MaxDragSteps pointer events on the editor, with the relay
\* of what its handler emitted.
DragStep(type, r) ==
    /\ edits < MaxDragSteps
    /\ ClientStep(type, Editor, r, TRUE)
    /\ inbox' = Relayed(inbox, clients, Editor, r.out)

DragPointerDown(id) ==
    /\ clients[Editor].session = NoSession
    /\ HasElement(clients[Editor].elements, id)
    /\ DragStep("pointerdown", handleElementPointerDown(clients[Editor], id))

DragPointerMove(move, eager) ==
    /\ clients[Editor].session.kind = "drag"
    /\ DragStep("pointermove", handlePointerMove(clients[Editor], move, eager))

DragPointerEnd ==
    /\ clients[Editor].session.kind = "drag"
    /\ DragStep("pointerup", handlePointerEnd(clients[Editor]))

\* The other page handles the oldest patch relayed to it.
DragDeliver == ClientReceivePatch(Watcher)

DragInit ==
    /\ SockInit /\ StoreInit /\ CommentInit
    /\ \E d \in StoredDesigns :
          clients = [c \in ClientSockets |-> Loaded(d.elements, d.width, d.height)]
    /\ inbox = [c \in ClientSockets |-> <<>>]
    /\ clientEvent = [type |-> "load", client |-> Editor, out |-> <<>>, changed |-> FALSE]
    /\ edits = 0
    /\ sent = 0
    /\ PanelInit

DragNext ==
    \/ \E id \in ElementIds : DragPointerDown(id)
    \/ \E move \in PointerMoves, eager \in BOOLEAN : DragPointerMove(move, eager)
    \/ DragPointerEnd
    \/ DragDeliver

(***************************************************************************)
(* The comment panel's steps.  The composer is on screen once the design   *)
(* has loaded, and its text area and button are disabled while a comment   *)
(* is being posted.                                                        *)
(***************************************************************************)
PanelEvent(type, detail) ==
    [type |-> type, client |-> Editor, out |-> <<>>, changed |-> FALSE, detail |-> detail]

PanelStep(type, detail, st) ==
    /\ panel' = st
    /\ clientEvent' = PanelEvent(type, detail)
    /\ edits' = edits + (IF type = "comment:submit" THEN 1 ELSE 0)
    /\ UNCHANGED <<clients, inbox, sent>>
    /\ UNCHANGED <<sockVars, storeVars, commentVars>>

ComposerEnabled == wire.load = <<>> /\ ~panel.commentSubmitting

\* A character typed at the end of the text.
CommentType(ch) ==
    /\ ComposerEnabled
    /\ Len(panel.commentInput) < MaxInput
    /\ PanelStep("comment:input", ch,
                 handleCommentInputChange(panel, Append(panel.commentInput, ch)))
    /\ UNCHANGED wire

\* The last character deleted.
CommentBackspace ==
    /\ ComposerEnabled
    /\ panel.commentInput # <<>>
    /\ PanelStep("comment:input", "Backspace",
                 handleCommentInputChange(panel,
                    SubSeq(panel.commentInput, 1, Len(panel.commentInput) - 1)))
    /\ UNCHANGED wire

\* A suggestion picked from the open list.
CommentMentionSelect(option) ==
    /\ ComposerEnabled
    /\ option \in mentionOptions(panel)
    /\ LET st == handleMentionSelect(panel, option)
       IN  /\ Len(st.commentInput) <= MaxInput
           /\ PanelStep("comment:mention", option, st)
    /\ UNCHANGED wire

\* The form submitted: the comment goes out over the socket or over REST.
CommentSubmit ==
    /\ ComposerEnabled
    /\ trim(panel.commentInput) # <<>>
    /\ edits < MaxPosts
    /\ LET r == handleSubmitComment(panel, TRUE)
       IN  /\ PanelStep("comment:submit",
                        [message |-> trim(panel.commentInput),
                         entities |-> panel.mentionEntities,
                         sent |-> r.emit \o r.post], r.st)
           /\ wire' = [wire EXCEPT !.emits = @ \o r.emit, !.posts = @ \o r.post]

\* The server's side of the panel: it stores a comment under a fresh id.
Stored(authorId) ==
    [_id |-> Len(wire.stored) + 1, authorId |-> authorId]

\* comment:create handled by the server: stored and broadcast to the room,
\* or refused with an error event to the sender.
ServerCommentCreate(ok) ==
    /\ wire.emits # <<>>
    /\ wire' = IF ok
               THEN [wire EXCEPT !.emits = Tail(@),
                                 !.stored = Append(@, Stored(PageUser)),
                                 !.broadcasts = @ \cup {Stored(PageUser)}]
               ELSE [wire EXCEPT !.emits = Tail(@), !.errors = @ + 1]
    /\ UNCHANGED <<panel, clients, inbox, clientEvent, edits, sent>>
    /\ UNCHANGED <<sockVars, storeVars, commentVars>>

\* POST /designs/:id/comments handled by the server.
ServerCommentPost(ok) ==
    /\ wire.posts # <<>>
    /\ wire' = IF ok
               THEN [wire EXCEPT !.posts = Tail(@),
                                 !.stored = Append(@, Stored(PageUser)),
                                 !.replies = @ \cup {[ok |-> TRUE, comment |-> Stored(PageUser)]}]
               ELSE [wire EXCEPT !.posts = Tail(@),
                                 !.replies = @ \cup {[ok |-> FALSE, comment |-> <<>>]}]
    /\ UNCHANGED <<panel, clients, inbox, clientEvent, edits, sent>>
    /\ UNCHANGED <<sockVars, storeVars, commentVars>>

\* Another participant's comment, stored and broadcast to the room; the
\* peer posts once.
PeerComment ==
    /\ \A i \in 1..Len(wire.stored) : wire.stored[i].authorId # PeerUser
    /\ wire' = [wire EXCEPT !.stored = Append(@, Stored(PeerUser)),
                            !.broadcasts = @ \cup {Stored(PeerUser)}]
    /\ UNCHANGED <<panel, clients, inbox, clientEvent, edits, sent>>
    /\ UNCHANGED <<sockVars, storeVars, commentVars>>

\* A comment:created event reaches the page: any comment broadcast so far,
\* any number of times, under the page's design id or another.
CommentCreatedEvent(comment, designId) ==
    /\ panel.connected
    /\ comment \in wire.broadcasts
    /\ PanelStep("comment:created",
                 [comment |-> comment, designId |-> designId,
                  listed |-> \E i \in 1..Len(panel.comments) :
                                panel.comments[i]._id = comment._id],
                 handleCommentCreated(panel, [designId |-> designId, comment |-> comment]))
    /\ UNCHANGED wire

\* The createComment call of handleSubmitComment resolves or throws.
CommentRestReply(reply) ==
    /\ reply \in wire.replies
    /\ PanelStep("comment:reply",
                 [reply |-> reply,
                  listed |-> /\ reply.ok
                             /\ \E i \in 1..Len(panel.comments) :
                                   panel.comments[i]._id = reply.comment._id],
                 handleCreateCommentResult(panel, reply))
    /\ wire' = [wire EXCEPT !.replies = @ \ {reply}]

CommentSocketError ==
    /\ wire.errors > 0
    /\ panel.connected
    /\ PanelStep("error", "error", handleSocketError(panel))
    /\ wire' = [wire EXCEPT !.errors = @ - 1]

\* The socket drops; what it had emitted and not yet delivered is lost with
\* it or not.
CommentDisconnect ==
    /\ panel.connected
    /\ PanelStep("disconnect", "disconnect", handleDisconnect(panel))
    /\ \E lost \in BOOLEAN :
          wire' = IF lost THEN [wire EXCEPT !.emits = <<>>, !.errors = 0]
                  ELSE [wire EXCEPT !.errors = 0]

CommentReconnect ==
    /\ ~panel.connected
    /\ PanelStep("connect", "connect", [panel EXCEPT !.connected = TRUE])
    /\ UNCHANGED wire

\* GET /designs/:id handled by the server: the comments stored at that time.
ServerLoad ==
    /\ wire.load # <<>>
    /\ ~wire.load[1].served
    /\ wire' = [wire EXCEPT !.load = <<[served |-> TRUE, comments |-> wire.stored]>>]
    /\ UNCHANGED <<panel, clients, inbox, clientEvent, edits, sent>>
    /\ UNCHANGED <<sockVars, storeVars, commentVars>>

\* getDesign resolves: setComments(response.comments) with the design state.
CommentsLoaded ==
    /\ wire.load # <<>>
    /\ wire.load[1].served
    /\ panel' = [panel EXCEPT !.comments = wire.load[1].comments]
    /\ clients' = [clients EXCEPT ![Editor] = LoadedClient]
    /\ clientEvent' = PanelEvent("load", wire.load[1].comments)
    /\ wire' = [wire EXCEPT !.load = <<>>]
    /\ UNCHANGED <<inbox, edits, sent>>
    /\ UNCHANGED <<sockVars, storeVars, commentVars>>

\* The composer of a loaded page with its socket connected.
MentionInit ==
    /\ SockInit /\ StoreInit /\ CommentInit
    /\ clients = [c \in ClientSockets |-> LoadedClient]
    /\ inbox = [c \in ClientSockets |-> <<>>]
    /\ clientEvent = PanelEvent("load", <<>>)
    /\ edits = 0
    /\ sent = 0
    /\ PanelInit

MentionNext ==
    \/ \E ch \in Alphabet : CommentType(ch)
    \/ CommentBackspace
    \/ \E option \in MentionableUsers : CommentMentionSelect(option)
    \/ CommentSubmit

StorableComments ==
    [_id : 1..(MaxPosts + 1), authorId : {PageUser, PeerUser}]

RestReplies ==
    [ok : {TRUE}, comment : StorableComments] \cup {[ok |-> FALSE, comment |-> <<>>]}

\* The comment list of a page from its mount on, with the server and a peer.
CommentListInit ==
    /\ SockInit /\ StoreInit /\ CommentInit
    /\ clients = [c \in ClientSockets |-> LoadedClient]
    /\ inbox = [c \in ClientSockets |-> <<>>]
    /\ clientEvent = PanelEvent("mount", <<>>)
    /\ edits = 0
    /\ sent = 0
    /\ panel = LoadedPanel
    /\ wire = [QuietWire EXCEPT !.load = <<[served |-> FALSE, comments |-> <<>>]>>]

CommentListNext ==
    \/ CommentType("a")
    \/ CommentSubmit
    \/ \E ok \in BOOLEAN : ServerCommentCreate(ok)
    \/ \E ok \in BOOLEAN : ServerCommentPost(ok)
    \/ PeerComment
    \/ \E comment \in StorableComments, d \in RoomIds : CommentCreatedEvent(comment, d)
    \/ \E reply \in RestReplies : CommentRestReply(reply)
    \/ CommentSocketError
    \/ CommentDisconnect
    \/ CommentReconnect
    \/ ServerLoad
    \/ CommentsLoaded

(***************************************************************************)
(* Access to stored designs and comments: getDesignById, the REST          *)
(* createCommentHandler and the socket's comment:create, next to the       *)
(* creation and update of designs.                                         *)
(***************************************************************************)
NoDesign == [none |-> TRUE]

\* getDesignById(id, userId): the code it throws with or "OK", and the
\* serialized design it returns.
getDesignById(store, id, userId) ==
    IF ~isValidObjectId(id) THEN [code |-> "DESIGN_NOT_FOUND", design |-> NoDesign]
    ELSE IF ~MapHas(store, id) THEN [code |-> "DESIGN_NOT_FOUND", design |-> NoDesign]
    ELSE IF ~canAccessDesign(MapGet(store, id), userId)
         THEN [code |-> "DESIGN_NOT_FOUND", design |-> NoDesign]
    ELSE [code |-> "OK", design |-> MapGet(store, id)]

\* A call of a service or handler that returns in the same step, with what
\* it returned.
Returned(op, userId, id, code, result) ==
    [op |-> op, slot |-> "none", userId |-> userId, id |-> id,
     version |-> NoVersion, code |-> code, result |-> result]

\* GET /designs/:id
GetDesign(id, userId) ==
    /\ LET got == getDesignById(designs, id, userId)
       IN  lastCall' = Returned("getDesignById", userId, id, got.code, got.design)
    /\ UNCHANGED <<designs, saving, clock>>
    /\ UNCHANGED <<sockVars, commentVars, clientVars, panelVars>>

\* createCommentHandler: POST /designs/:id/comments by an authenticated user.
\* The body is validated, getDesignById checks the design and the access,
\* createComment stores the comment (CommentModel.create settles with ok).
createCommentHandler(store, sub, designId, userId, payload, ok) ==
    LET body == safeParse(payload)
        got == getDesignById(store, designId, userId)
        doc == CommentDoc(sub, designId, [id |-> userId, name |-> "known"], body.data)
    IN  IF ~body.success THEN [code |-> "VALIDATION_ERROR", stored |-> {}]
        ELSE IF got.code # "OK" THEN [code |-> got.code, stored |-> {}]
        ELSE IF ~ok THEN [code |-> "INTERNAL_ERROR", stored |-> {}]
        ELSE [code |-> "OK", stored |-> {doc}]

RestCommentCreate(userId, designId, payload, ok) ==
    /\ NewSubmission <= MaxSubmissions
    /\ LET done == createCommentHandler(designs, NewSubmission, designId, userId,
                                        payload, ok)
       IN  /\ comments' = comments \cup done.stored
           /\ submissions' = MapSet(submissions, NewSubmission,
                                    Trail(FALSE, done.stored, <<>>))
           /\ lastCall' = Returned("createComment", userId, designId, done.code,
                                   done.stored)
    /\ UNCHANGED <<designs, saving, clock, pendingComments>>
    /\ UNCHANGED <<sockVars, clientVars, panelVars>>

\* The requests of the access claims: one design created by u1, requests of
\* u1 and u2 over REST, and u2's connection sB, with a valid and an invalid
\* comment.
MaxComments == 1
Owner == "u1"
Visitor == "sB"
AccessPayloads ==
    { CommentPayload({"author", "message"}, "Bo", "ok", <<>>, NullPosition),
      CommentPayload({"message"}, "", "hi", <<>>, NullPosition) }
AccessBodies ==
    { Body({"name", "width", "height"}, "n2", 200, 200, "e1", FALSE),
      Body({"isPublic"}, "n1", 100, 100, "e1", TRUE) }

AccessUpdateRead(id, body, version, userId) ==
    UpdateRead("r1", id, body, version, userId)

AccessCommentCreate(designId, payload) ==
    /\ NewSubmission <= MaxComments
    /\ CommentCreate(Visitor, designId, payload)

AccessRestCommentCreate(userId, designId, payload, ok) ==
    /\ NewSubmission <= MaxComments
    /\ RestCommentCreate(userId, designId, payload, ok)

AccessNext ==
    \/ \E id \in DesignIds, b \in CreateBodies : CreateDesign(id, Owner, b)
    \/ \E id \in DesignIds \cup {BadId}, u \in UserIds : GetDesign(id, u)
    \/ \E id \in DesignIds, b \in AccessBodies, v \in VersionInputs, u \in UserIds :
          AccessUpdateRead(id, b, v, u)
    \/ UpdateSave("r1")
    \/ Connect(Visitor)
    \/ \E d \in DesignIds : Join(Visitor, d, UserOf[Visitor])
    \/ \E d \in DesignIds, p \in AccessPayloads : AccessCommentCreate(d, p)
    \/ \E sub \in 1..MaxComments, ok \in BOOLEAN : CommentStoreDone(sub, ok)
    \/ \E u \in UserIds, d \in DesignIds, p \in AccessPayloads, ok \in BOOLEAN :
          AccessRestCommentCreate(u, d, p, ok)

(***************************************************************************)
(* Saving: one editor page, the only writer of its design, its PUT         *)
(* /designs/:id requests through updateDesignHandler, and the responses.   *)
(***************************************************************************)
MaxSaves == 2

\* The JSON body of handleSave's request: the keys of its payload object.
SaveRequest(payload) ==
    [fields |-> DataFields, name |-> payload.name, width |-> payload.width,
     height |-> payload.height, elements |-> payload.elements,
     isPublic |-> payload.isPublic]

\* updateDesignSchema.safeParse(req.body).data: name, width, height,
\* elements and isPublic when present; a z.object drops every other key.
updateDesignSchema(body) == [body EXCEPT !.fields = @ \cap DataFields]

\* input.version as updateDesign reads it from the parsed body.
InputVersion(input) == IF Has(input, "version") THEN input.version ELSE NoVersion

\* The design as stored when the page loaded it.
SavedDesign ==
    [name |-> "n1", width |-> 100, height |-> 100, elements |-> LoadedElements,
     isPublic |-> FALSE, version |-> 0, lastSavedAt |-> 0, owner |-> Owner,
     collaboratorIds |-> {}, vkey |-> 0]

\* A handler of the saving page has run.
SaveStep(type, r) ==
    /\ clients' = [clients EXCEPT ![Editor] = DirtyEffect(clients[Editor], r.st)]
    /\ clientEvent' = [type |-> type, client |-> Editor, out |-> r.out,
                       changed |-> [r.st EXCEPT !.rendered = FALSE] # clients[Editor],
                       redoable |-> Len(clients[Editor].future)]
    /\ UNCHANGED <<sockVars, commentVars, panelVars>>

SaveLocalEdit(type, r) ==
    /\ edits < MaxEdits
    /\ SaveStep(type, r)
    /\ edits' = edits + 1
    /\ UNCHANGED <<inbox, sent, storeVars>>

SaveRename(value) == SaveLocalEdit("rename", handleNameChange(clients[Editor], value))

SaveEditElements(u, eager) ==
    SaveLocalEdit("elements", applyElementsUpdate(clients[Editor], u, eager))

\* The Save button (enabled unless saving or not dirty): the request leaves.
SaveClick ==
    /\ clients[Editor].pendingSave = <<>>
    /\ clients[Editor].isDirty
    /\ sent < MaxSaves
    /\ SaveStep("save", handleSave(clients[Editor]))
    /\ sent' = sent + 1
    /\ UNCHANGED <<inbox, edits, storeVars>>

\* updateDesignHandler for the request in flight, with no other request on
\* the design: the body is parsed, updateDesign checks, assigns and saves,
\* and the response leaves for the page.
SaveServed ==
    /\ clients[Editor].pendingSave # <<>>
    /\ inbox[Editor] = <<>>
    /\ LET input == updateDesignSchema(SaveRequest(Head(clients[Editor].pendingSave)))
           version == InputVersion(input)
           code == UpdateCheck(designs, PageDesignId, input, version, Owner)
           loaded == MapGet(designs, PageDesignId)
           doc == UpdateApply(loaded, input, clock)
       IN  /\ lastCall' = Call("updateDesign", "none", Owner, PageDesignId, version, code)
           /\ designs' = IF code = "OK"
                         THEN MapSet(designs, PageDesignId,
                                     SaveDocument(loaded, doc, ModifiedPaths(loaded, doc)))
                         ELSE designs
           /\ clock' = IF code = "OK" THEN clock + 1 ELSE clock
           /\ inbox' = [inbox EXCEPT ![Editor] = <<[code |-> code, design |-> doc]>>]
    /\ UNCHANGED <<saving, clients, clientEvent, edits, sent>>
    /\ UNCHANGED <<sockVars, commentVars, panelVars>>

\* The response reaches the page: handleSave continues after its await.
SaveReplied ==
    /\ inbox[Editor] # <<>>
    /\ LET reply == Head(inbox[Editor])
       IN  IF reply.code = "OK"
           THEN SaveStep("saved", handleSaveResponse(clients[Editor], reply.design))
           ELSE SaveStep("saveFailed", handleSaveFailure(clients[Editor]))
    /\ inbox' = [inbox EXCEPT ![Editor] = <<>>]
    /\ UNCHANGED <<edits, sent, storeVars>>

\* The page has loaded the stored design d1 of its user.
SaveInit ==
    /\ SockInit /\ CommentInit /\ PanelInit
    /\ designs = MapSet(EmptyMap, PageDesignId, SavedDesign)
    /\ saving = [r \in Slots |-> Idle]
    /\ clock = 1
    /\ lastCall = Returned("getDesignById", Owner, PageDesignId, "OK", SavedDesign)
    /\ clients = [c \in ClientSockets |->
                     Loaded(SavedDesign.elements, SavedDesign.width, SavedDesign.height)]
    /\ inbox = [c \in ClientSockets |-> <<>>]
    /\ clientEvent = [type |-> "load", client |-> Editor, out |-> <<>>, changed |-> FALSE,
                      redoable |-> 0]
    /\ edits = 0
    /\ sent = 0

SaveNext ==
    \/ \E value \in Names : SaveRename(value)
    \/ \E u \in Updaters, eager \in BOOLEAN : SaveEditElements(u, eager)
    \/ SaveClick
    \/ SaveServed
    \/ SaveReplied

(***************************************************************************)
(* A save in flight: the page of SaveInit keeps editing and receiving      *)
(* patches while its request is out, and the server answers with the       *)
(* design as it was sent, or with an error.                                *)
(***************************************************************************)
FlightPatches ==
    { ElementsPatch(<<Element("e1", 0, 0, 40, 40, 0), Element("e2", 50, 50, 40, 40, 1)>>),
      NamePatch("n2") }

FlightRemotePatch(patch) ==
    SaveLocalEdit("design:patch",
                  handlePatchEvent(clients[Editor],
                                   [designId |-> PageDesignId, actorId |-> "u2",
                                    patch |-> patch]))

FlightReplied(ok) ==
    /\ clients[Editor].pendingSave # <<>>
    /\ SaveStep(IF ok THEN "saved" ELSE "saveFailed",
                IF ok THEN handleSaveResponse(clients[Editor],
                                              Head(clients[Editor].pendingSave))
                ELSE handleSaveFailure(clients[Editor]))
    /\ UNCHANGED <<inbox, edits, sent, storeVars>>

FlightNext ==
    \/ \E value \in Names : SaveRename(value)
    \/ \E u \in Updaters, eager \in BOOLEAN : SaveEditElements(u, eager)
    \/ \E patch \in FlightPatches : FlightRemotePatch(patch)
    \/ SaveClick
    \/ \E ok \in BOOLEAN : FlightReplied(ok)

Init == SockInit /\ StoreInit /\ CommentInit /\ ClientInit

Next ==
    \/ \E s \in Sockets : Connect(s)
    \/ \E s \in Sockets, d \in RoomIds : Join(s, d, UserOf[s])
    \/ \E s \in Sockets, d \in RoomIds : Leave(s, d)
    \/ \E s \in Sockets, d \in RoomIds, c \in Cursors \cup {NoCursor} : CursorEvent(s, d, c)
    \/ \E s \in Sockets, d \in RoomIds, p \in Patches : PatchEvent(s, d, UserOf[s], p)
    \/ \E s \in Sockets : Disconnect(s)

\* The relay: connections, rooms, presence, patches and cursors.
Spec == Init /\ [][Next]_vars

\* The design persistence service under concurrent requests.
SpecStore == Init /\ [][StoreNext]_vars

\* The comment broadcaster, with connections joining, leaving and dropping.
SpecComment == Init /\ [][CommentNext]_vars

\* Two editor pages on one design, joined by the relay.
SpecClient == Init /\ [][ClientNext]_vars

\* One editor page making up to MaxEntries edits, with undo and redo.
SpecHistory == HistoryInit /\ [][HistoryNext]_vars

\* One editor page: every gesture, undo and redo, save, and remote patches.
SpecEditor == EditorInit /\ [][EditorNext]_vars

\* Designs and comments requested by their owner and by another user.
SpecAccess == Init /\ [][AccessNext]_vars

\* One editor page saving its design, with no other writer.
SpecSave == SaveInit /\ [][SaveNext]_vars

\* One editor page editing and receiving patches while its save is in flight.
SpecFlight == SaveInit /\ [][FlightNext]_vars

\* A drag on one page with a second page receiving its patches.
SpecDrag == DragInit /\ [][DragNext]_vars

\* The comment composer of one page: typing, suggestions, submit.
SpecMention == MentionInit /\ [][MentionNext]_vars

\* The comment list of one page: broadcasts, REST replies, the design load.
SpecCommentList == CommentListInit /\ [][CommentListNext]_vars

(***************************************************************************)
(* Properties of the relay                                                 *)
(***************************************************************************)
\* The connections holding an entry in the registry of room d.
PresenceKeys(d) ==
    IF MapHas(presenceByDesign, d) THEN DOMAIN MapGet(presenceByDesign, d) ELSE {}

\* C1: a design:patch event sent by connection A naming room D is emitted
\* exactly once, with the payload (designId, actorId, patch) it came with, to
\* every connection joined to D other than A, and never to A.
C1_PatchToOthersNotSender ==
    lastEvent.type = "design:patch" =>
        /\ Len(emitted) = 1
        /\ emitted[1].event = "design:patch"
        /\ emitted[1].payload = lastEvent.args
        /\ \A s \in Sockets :
              s \in emitted[1].to <=>
                 (s \in rooms[lastEvent.designId] /\ s # lastEvent.socket)

\* C1 witness: a member of a room of three sends a patch; the two others get it.
C1_Witness ==
    /\ lastEvent.type = "design:patch"
    /\ lastEvent.socket \in rooms[lastEvent.designId]
    /\ Cardinality(rooms[lastEvent.designId]) = 3
    /\ Len(emitted) = 1
    /\ Cardinality(emitted[1].to) = 2

RelayEvents == {"design:patch", "design:cursor"}

\* C2 as stated: with X joined only to room A and Y joined only to room B,
\* A # B, no design:patch or design:cursor event emitted by X is delivered to Y.
C2_IsolationAnyEvent ==
    \A x \in Sockets, y \in Sockets, a \in RoomIds, b \in RoomIds :
        ( /\ a # b
          /\ JoinedRooms(rooms, x) = {a}
          /\ JoinedRooms(rooms, y) = {b}
          /\ lastEvent.type \in RelayEvents
          /\ lastEvent.socket = x )
        => \A i \in 1..Len(emitted) : y \notin emitted[i].to

\* C2 (amended): with X joined only to room A and Y joined only to room B,
\* A # B, no design:patch or design:cursor event emitted by X that names a
\* room other than B is delivered to Y; the relay routes by the room the event
\* names and never beyond that room's members.
C2_IsolationByNamedRoom ==
    /\ \A x \in Sockets, y \in Sockets, a \in RoomIds, b \in RoomIds :
          ( /\ a # b
            /\ JoinedRooms(rooms, x) = {a}
            /\ JoinedRooms(rooms, y) = {b}
            /\ lastEvent.type \in RelayEvents
            /\ lastEvent.socket = x
            /\ lastEvent.designId # b )
          => \A i \in 1..Len(emitted) : y \notin emitted[i].to
    /\ lastEvent.type \in RelayEvents =>
          \A i \in 1..Len(emitted) : emitted[i].to \subseteq rooms[lastEvent.designId]

\* C2 witness: X, only in A, sends an event naming A that reaches a peer in A
\* while Y is only in B.
C2_Witness ==
    \E x \in Sockets, y \in Sockets, a \in RoomIds, b \in RoomIds :
        /\ a # b
        /\ JoinedRooms(rooms, x) = {a}
        /\ JoinedRooms(rooms, y) = {b}
        /\ lastEvent.type \in RelayEvents
        /\ lastEvent.socket = x
        /\ lastEvent.designId = a
        /\ Len(emitted) = 1
        /\ emitted[1].to # {}
        /\ y \notin emitted[1].to

\* C3: the participant list of every room holds exactly one entry for each
\* connection that has joined the room and not since left it or disconnected,
\* and no other entry.
C3_PresenceIsMembership ==
    \A d \in RoomIds :
        /\ PresenceKeys(d) = rooms[d]
        /\ \A s \in PresenceKeys(d) : MapGet(presenceByDesign, d)[s].socketId = s
        /\ Cardinality(PresenceList(presenceByDesign, d)) = Cardinality(rooms[d])

\* C3 witness: a connection that had joined two rooms disconnected without
\* leaving, and one of those rooms still lists another participant.
C3_Witness ==
    /\ lastEvent.type = "disconnect"
    /\ Cardinality(lastEvent.args.joined) = 2
    /\ \E d \in lastEvent.args.joined : PresenceKeys(d) # {}

\* C4: when a connection that has joined rooms R1..Rn disconnects, a
\* design:presence event that does not list it is emitted to each Ri, and
\* afterwards no room's registry holds an entry for it.
C4_DisconnectCleansEveryRoom ==
    lastEvent.type = "disconnect" =>
        /\ \A d \in lastEvent.args.joined :
              \E i \in 1..Len(emitted) :
                 /\ emitted[i].event = "design:presence"
                 /\ emitted[i].room = d
                 /\ emitted[i].to = rooms[d]
                 /\ emitted[i].payload.designId = d
                 /\ \A p \in emitted[i].payload.participants :
                       p.socketId # lastEvent.socket
                 /\ emitted[i].payload.participants =
                       PresenceList(presenceByDesign, d)
        /\ \A d \in RoomIds : lastEvent.socket \notin PresenceKeys(d)
        /\ ~MapHas(membershipBySocket, lastEvent.socket)

\* C4 witness: a connection joined to two rooms disconnects and the remaining
\* member of one of them is sent the new list.
C4_Witness ==
    /\ lastEvent.type = "disconnect"
    /\ Cardinality(lastEvent.args.joined) = 2
    /\ Len(emitted) = 2
    /\ \E i \in 1..2 : emitted[i].to # {}

(***************************************************************************)
(* Properties of the design persistence service                            *)
(***************************************************************************)
\* A step in which updateDesign ran from its start to a throw or to save().
UpdateCalled ==
    /\ lastCall'.op = "updateDesign"
    /\ lastCall'.slot = "none" \/ lastCall'.code = "PENDING"

\* A step in which design.save() of an updateDesign completed.
UpdateSaved == lastCall'.op = "updateDesign" /\ lastCall'.code = "OK"

\* C5 as stated: updateDesign called with a version different from the stored
\* design's current version fails with VERSION_CONFLICT and leaves the stored
\* design (name, width, height, elements, isPublic, version, lastSavedAt)
\* unchanged.
C5_StaleVersionConflict ==
    [][ ( /\ UpdateCalled
          /\ MapHas(designs, lastCall'.id)
          /\ lastCall'.version # MapGet(designs, lastCall'.id).version )
        => ( /\ lastCall'.code = "VERSION_CONFLICT"
             /\ designs' = designs ) ]_vars

\* C5 (amended): updateDesign called by a user allowed to access the design
\* (owner, collaborator, or the design is public) with a version different
\* from the stored design's current version fails with VERSION_CONFLICT; with
\* or without access the stored design is left unchanged.
C5_StaleVersionConflictWithAccess ==
    [][ ( /\ UpdateCalled
          /\ MapHas(designs, lastCall'.id)
          /\ lastCall'.version # MapGet(designs, lastCall'.id).version )
        => ( /\ canAccessDesign(MapGet(designs, lastCall'.id), lastCall'.userId)
                => lastCall'.code = "VERSION_CONFLICT"
             /\ lastCall'.code \in {"VERSION_CONFLICT", "DESIGN_NOT_FOUND"}
             /\ designs' = designs ) ]_vars

\* C5 witness: a save based on the version before the last durable save was
\* rejected with VERSION_CONFLICT.
C5_Witness ==
    /\ lastCall.op = "updateDesign"
    /\ lastCall.code = "VERSION_CONFLICT"
    /\ MapHas(designs, lastCall.id)
    /\ MapGet(designs, lastCall.id).version = lastCall.version + 1
    /\ lastCall.version >= 0

\* C6: a design's stored version starts at 0 on creation, increases by exactly
\* one on every successful updateDesign, is unchanged by every failed
\* updateDesign, and never decreases.
C6_VersionCounter ==
    [][ \A id \in DesignIds :
          /\ (~MapHas(designs, id) /\ MapHas(designs', id))
                => MapGet(designs', id).version = 0
          /\ MapHas(designs, id) =>
                /\ MapHas(designs', id)
                /\ MapGet(designs', id).version >= MapGet(designs, id).version
                /\ IF UpdateSaved /\ lastCall'.id = id
                   THEN MapGet(designs', id).version = MapGet(designs, id).version + 1
                   ELSE MapGet(designs', id).version = MapGet(designs, id).version ]_vars

(***************************************************************************)
(* Properties of the comment broadcaster                                   *)
(***************************************************************************)
Count(seq, x) == Cardinality({i \in 1..Len(seq) : seq[i] = x})

StoredIds == {c.id : c \in comments}

\* The schema's demands, stated on the payload: author and message are
\* non-empty strings.
PayloadInvalid(payload) ==
    \/ "author" \notin payload.fields \/ payload.author = ""
    \/ "message" \notin payload.fields \/ payload.message = ""

\* C7: for a comment:create whose payload passes validation and whose store
\* write succeeds, the comment is persisted and then exactly one
\* comment:created event carrying the persisted record is emitted to every
\* connection in the named room, the sender included; no comment:created is
\* emitted before or without the persistence.
C7_PersistThenBroadcast ==
    /\ (lastEvent.type = "comment:stored" /\ lastEvent.args.ok) =>
          /\ Len(emitted) = 1
          /\ emitted[1].event = "comment:created"
          /\ emitted[1].room = lastEvent.designId
          /\ emitted[1].to = rooms[lastEvent.designId]
          /\ emitted[1].payload.designId = lastEvent.designId
          /\ emitted[1].payload.comment \in comments
          /\ emitted[1].payload.comment.id = lastEvent.args.sub
    /\ \A i \in 1..Len(emitted) :
          emitted[i].event = "comment:created" =>
             /\ lastEvent.type = "comment:stored"
             /\ emitted[i].payload.comment \in comments
    /\ \A sub \in DOMAIN submissions :
          LET trail == MapGet(submissions, sub)
          IN  /\ Count(trail, "comment:created") <= 1
              /\ \A i \in 1..Len(trail) :
                    trail[i] = "comment:created" => (i > 1 /\ trail[i - 1] = "persisted")
              /\ \A i \in 1..Len(trail) :
                    trail[i] = "persisted" =>
                       (i < Len(trail) /\ trail[i + 1] = "comment:created" /\ sub \in StoredIds)

\* C7 witness: the store write of a comment sent by a member of a room of two
\* succeeded and both members, the sender included, are sent the record.
C7_Witness ==
    /\ lastEvent.type = "comment:stored"
    /\ lastEvent.args.ok
    /\ lastEvent.socket \in rooms[lastEvent.designId]
    /\ Cardinality(rooms[lastEvent.designId]) >= 2
    /\ Len(emitted) = 1
    /\ emitted[1].to = rooms[lastEvent.designId]

\* C8: for a comment:create whose payload fails validation, nothing is
\* persisted, no comment:created is emitted, and exactly one error event with
\* code VALIDATION_ERROR and the failing fields is emitted, to the sender only.
C8_InvalidRejectedToSender ==
    /\ (lastEvent.type = "comment:create" /\ PayloadInvalid(lastEvent.args.payload)) =>
          /\ Len(emitted) = 1
          /\ emitted[1].event = "error"
          /\ emitted[1].room = NoRoom
          /\ emitted[1].to = {lastEvent.socket}
          /\ emitted[1].payload.code = "VALIDATION_ERROR"
          /\ emitted[1].payload.details # {}
          /\ \A f \in emitted[1].payload.details :
                f \notin lastEvent.args.payload.fields \/ lastEvent.args.payload[f] = ""
          /\ MapGet(submissions, lastEvent.args.sub) = <<"error">>
    /\ \A sub \in DOMAIN submissions :
          MapGet(submissions, sub)[1] = "error" =>
             /\ MapGet(submissions, sub) = <<"error">>
             /\ sub \notin StoredIds
             /\ ~MapHas(pendingComments, sub)

\* C8 witness: a comment with an empty message was rejected while another
\* connection was in the room.
C8_Witness ==
    /\ lastEvent.type = "comment:create"
    /\ "message" \in lastEvent.args.payload.fields
    /\ lastEvent.args.payload.message = ""
    /\ lastEvent.designId \in RoomIds
    /\ rooms[lastEvent.designId] \ {lastEvent.socket} # {}
    /\ lastEvent.socket \in rooms[lastEvent.designId]
    /\ Len(emitted) = 1

Broadcast == <<"write", "persisted", "comment:created">>
RejectedValidation == <<"error">>
RejectedStoreFailure == <<"write", "error">>
Pending == <<"write">>

\* C9: every comment submission ends in exactly one terminal outcome, Broadcast
\* (persisted, then broadcast) or Rejected (an error to the sender only, no
\* broadcast); none produces both a comment:created and an error, and the
\* store write of a submission is attempted at most once.
C9_OneTerminalOutcome ==
    /\ \A sub \in DOMAIN submissions :
          LET trail == MapGet(submissions, sub)
          IN  /\ IF MapHas(pendingComments, sub) THEN trail = Pending
                 ELSE trail \in {Broadcast, RejectedValidation, RejectedStoreFailure}
              /\ ~(Count(trail, "comment:created") > 0 /\ Count(trail, "error") > 0)
              /\ Count(trail, "write") <= 1
              /\ (trail = Broadcast) <=> (sub \in StoredIds)
    /\ lastEvent.type \in {"comment:create", "comment:stored"} =>
          \A i \in 1..Len(emitted) :
             emitted[i].event = "error" =>
                /\ Len(emitted) = 1
                /\ emitted[i].room = NoRoom
                /\ emitted[i].to \subseteq {lastEvent.socket}

\* C9 witness: one submission ended Broadcast and another ended Rejected by a
\* store failure.
C9_Witness ==
    \E a \in DOMAIN submissions, b \in DOMAIN submissions :
        /\ MapGet(submissions, a) = Broadcast
        /\ MapGet(submissions, b) = RejectedStoreFailure
        /\ pendingComments = EmptyMap

(***************************************************************************)
(* Properties of the editor page                                           *)
(***************************************************************************)
\* The relayed patches waiting at the clients.
InFlight == inbox["sA"] \o inbox["sB"]

\* C10: a client never emits a design:patch while applyingRemotePatchRef is
\* true; a patch received from the relay is never re-broadcast by the client
\* that receives it, so one local edit causes a bounded number of relayed
\* messages (at most two emits per edit, each relayed to the other members
\* once) and the flag is clear between handlers.
C10_NoBroadcastWhileApplying ==
    /\ \A i \in 1..Len(clientEvent.out) : ~clientEvent.out[i].applying
    /\ clientEvent.type = "design:patch" => clientEvent.out = <<>>
    /\ \A c \in ClientSockets : ~clients[c].applyingRemotePatch
    /\ sent <= 2 * edits
    /\ Len(InFlight) <= sent * (Cardinality(ClientSockets) - 1)

\* C10 witness: a client applied a relayed patch that moved its selection,
\* emitted nothing, and no patch is left in flight.
C10_Witness ==
    /\ clientEvent.type = "design:patch"
    /\ clientEvent.changed
    /\ clientEvent.out = <<>>
    /\ sent >= 1
    /\ InFlight = <<>>
    /\ \E c \in ClientSockets :
          /\ c # clientEvent.client
          /\ clients[c].selectedElementId = clients[clientEvent.client].selectedElementId
          /\ clients[c].selectedElementId # LoadedClient.selectedElementId

(***************************************************************************)
(* C20: presence cleanup is idempotent.  For a connected socket s and a    *)
(* design D, the sequences leave(D); leave(D), leave(D); disconnect;       *)
(* leave(D), disconnect all end with the same presence registry for D as   *)
(* a single leave(D), and every other socket's entry for D is kept.        *)
(***************************************************************************)
CurrentRegistry == Registry(rooms, presenceByDesign, membershipBySocket)

\* The presence registry's entries for one design.
PresenceEntries(reg, designId) ==
    IF MapHas(reg.presenceByDesign, designId)
    THEN MapGet(reg.presenceByDesign, designId) ELSE EmptyMap

EntryOf(reg, designId, s) ==
    IF MapHas(PresenceEntries(reg, designId), s)
    THEN {MapGet(PresenceEntries(reg, designId), s)} ELSE {}

C20_CleanupIdempotent ==
    \A s \in Sockets, d \in RoomIds :
        conn[s] = "live" =>
            LET once == leaveDesign(CurrentRegistry, s, d)
                twice == leaveDesign(once, s, d)
                dropped == disconnectSocket(CurrentRegistry, s).reg
                leftThenDropped == disconnectSocket(once, s).reg
                ends == {once, twice, dropped, leftThenDropped}
            IN  /\ \A reg \in ends :
                      /\ PresenceEntries(reg, d) = PresenceEntries(once, d)
                      /\ EntryOf(reg, d, s) = {}
                      /\ \A o \in Sockets \ {s} :
                            EntryOf(reg, d, o) = EntryOf(CurrentRegistry, d, o)
                /\ twice = once

\* A socket present in a design together with another socket, and also a
\* member of a second design.
C20_Witness ==
    \E s \in Sockets, o \in Sockets, d \in RoomIds, d2 \in RoomIds :
        /\ o # s
        /\ d2 # d
        /\ conn[s] = "live"
        /\ EntryOf(CurrentRegistry, d, s) # {}
        /\ EntryOf(CurrentRegistry, d, o) # {}
        /\ EntryOf(CurrentRegistry, d2, s) # {}

(***************************************************************************)
(* Visibility of a stored design                                           *)
(***************************************************************************)
\* The stored isPublic flag changes only by the save of an updateDesign
\* issued by the owner.
VisibilityChangesByOwnerOnly ==
    \A id \in DesignIds :
        ( /\ MapHas(designs, id)
          /\ MapHas(designs', id)
          /\ MapGet(designs', id).isPublic # MapGet(designs, id).isPublic )
        => ( /\ UpdateSaved
             /\ lastCall'.id = id
             /\ lastCall'.userId = MapGet(designs, id).owner )

\* An updateDesign that threw left the store as it was.
RejectedUpdateKeepsStore ==
    (UpdateCalled /\ lastCall'.code # "PENDING") => designs' = designs

\* The code every updateDesign on a stored design gets when its caller is not
\* the owner and its body carries a boolean isPublic, as Expected tells it.
OthersVisibilityCode(Expected(_, _, _)) ==
    \A id \in DesignIds :
        MapHas(designs, id) =>
            \A u \in UserIds \ {MapGet(designs, id).owner} :
                \A b \in {x \in UpdateBodies : Has(x, "isPublic")}, v \in VersionInputs :
                    UpdateCheck(designs, id, b, v, u) = Expected(MapGet(designs, id), v, u)

AlwaysAuthError(design, version, userId) == "AUTH_ERROR"

\* The order of the checks of updateDesign: access, version, owner.
AccessVersionOwner(design, version, userId) ==
    IF ~canAccessDesign(design, userId) THEN "DESIGN_NOT_FOUND"
    ELSE IF version # design.version THEN "VERSION_CONFLICT"
    ELSE "AUTH_ERROR"

\* C19 as stated: the stored isPublic flag changes only through an
\* updateDesign issued by the owner, and an updateDesign by any other user
\* whose request carries a boolean isPublic is rejected with AUTH_ERROR,
\* leaving the stored design unchanged.
C19_VisibilityOwnerOnly ==
    /\ [][VisibilityChangesByOwnerOnly /\ RejectedUpdateKeepsStore]_vars
    /\ []OthersVisibilityCode(AlwaysAuthError)

\* C19 (amended): the stored isPublic flag changes only through an
\* updateDesign issued by the owner.  An updateDesign by any other user whose
\* request carries a boolean isPublic is always rejected and leaves the stored
\* design unchanged: with DESIGN_NOT_FOUND when the user may not access the
\* design, otherwise with VERSION_CONFLICT when the version is not the stored
\* one, otherwise with AUTH_ERROR.
C19_VisibilityOwnerOnlyWithAccess ==
    /\ [][VisibilityChangesByOwnerOnly /\ RejectedUpdateKeepsStore]_vars
    /\ []OthersVisibilityCode(AccessVersionOwner)

\* C19 witness: a user who is not the owner was refused a change of
\* visibility with AUTH_ERROR, on a design whose visibility its owner had set.
C19_Witness ==
    /\ lastCall.op = "updateDesign"
    /\ lastCall.code = "AUTH_ERROR"
    /\ MapHas(designs, lastCall.id)
    /\ MapGet(designs, lastCall.id).owner # lastCall.userId
    /\ MapGet(designs, lastCall.id).version > 0
    /\ MapGet(designs, lastCall.id).isPublic

(***************************************************************************)
(* Properties of one editor page                                           *)
(***************************************************************************)
\* The page state that holds each field of a DesignRealtimePatch.
PatchedField(st, f) ==
    IF f = "elements" THEN st.elements
    ELSE IF f = "selectedElementId" THEN <<st.selectedElementId>>
    ELSE IF f = "width" THEN <<st.draftWidth>>
    ELSE IF f = "height" THEN <<st.draftHeight>>
    ELSE IF f = "name" THEN <<st.draftName>>
    ELSE <<st.draftIsPublic>>

PatchFieldNames == {"elements", "selectedElementId", "width", "height", "name", "isPublic"}

\* The settled page after design:patch with the given patch is handled.
AfterRemotePatch(st, patch) ==
    DirtyEffect(st, handlePatchEvent(st, [designId |-> PageDesignId, actorId |-> "u2",
                                          patch |-> patch]).st)

\* C11: applying a remote patch changes only the fields the patch carries
\* (elements, selectedElementId, width, height, name, isPublic); every field
\* absent from the patch keeps its value, and the undo and redo stacks are
\* left as they were.
C11_PatchMergesPresentFields ==
    \A patch \in RemotePatches :
        LET before == clients[Editor]
            after == AfterRemotePatch(before, patch)
        IN  /\ \A f \in PatchFieldNames \ patch.fields :
                  PatchedField(after, f) = PatchedField(before, f)
            /\ after.past = before.past
            /\ after.future = before.future

\* C11 witness: a patch of the width alone was applied to a page with undo
\* and redo history; the width took the patch's value.
C11_Witness ==
    /\ clientEvent.type = "design:patch"
    /\ clientEvent.changed
    /\ clients[Editor].draftWidth = 60
    /\ clients[Editor].draftHeight = 100
    /\ Len(clients[Editor].past) >= 1
    /\ Len(clients[Editor].future) >= 1

\* The zIndex values of the array are 0 .. n-1 in array order.
ZIndexDense(elements) == \A i \in 1..Len(elements) : elements[i].zIndex = i - 1

\* C16: after any add, delete, reorder, style change, drag, resize, rotate,
\* undo, redo, load or remote elements patch, the zIndex values of the
\* elements array are exactly 0 .. n-1 in array order.
C16_ZIndexDense == ZIndexDense(clients[Editor].elements)

\* C16 witness: a design stored with zIndex 7 and 3 was loaded, its first
\* element was brought forward, and that was undone and redone.
C16_Witness ==
    /\ clientEvent.type = "redo"
    /\ clientEvent.changed
    /\ Len(clients[Editor].elements) = 2
    /\ clients[Editor].elements[1].id = "e1"
    /\ clients[Editor].elements[1].x = 60

\* The element lies inside the canvas and is at least the minimum size.
InsideCanvas(element, canvasWidth, canvasHeight) ==
    /\ 0 <= element.x
    /\ element.x <= canvasWidth - element.width
    /\ 0 <= element.y
    /\ element.y <= canvasHeight - element.height
    /\ element.width >= MIN_ELEMENT_SIZE
    /\ element.height >= MIN_ELEMENT_SIZE

AllInsideCanvas(st) ==
    \A i \in 1..Len(st.elements) :
        InsideCanvas(st.elements[i], st.draftWidth, st.draftHeight)

AfterUndo(st) == DirtyEffect(st, handleUndo(st).st)
AfterRedo(st) == DirtyEffect(st, handleRedo(st).st)

\* C12: in any editor state reached after at least one recorded history
\* entry, undo immediately followed by redo restores exactly the state
\* (elements, width, height, selectedElementId, name, isPublic) that held
\* before the undo, and the past and future stacks as they were.
C12_UndoRedoRestores ==
    LET before == clients[Editor]
        after == AfterRedo(AfterUndo(before))
    IN  (Len(before.past) > 1 /\ before.session = NoSession)
        => /\ captureSnapshot(after) = captureSnapshot(before)
           /\ after.past = before.past
           /\ after.future = before.future

\* The handlers that open a history entry.
EntryEvents == {"add", "delete", "reorder", "change", "pointerdown", "resizedown",
                "rotatedown"}

\* C15: opening a new history entry empties the redo stack, so that after
\* an undo followed by a new edit, redo changes nothing.
C15_NewEntryClearsFuture ==
    clientEvent.type \in EntryEvents
    => /\ clients[Editor].future = <<>>
       /\ handleRedo(clients[Editor]) = Run(clients[Editor], <<>>)

\* C15 witness: an edit was made while an undone entry could still be redone.
C15_Witness ==
    /\ clientEvent.type \in {"delete", "change"}
    /\ clientEvent.redoable >= 1
    /\ clients[Editor].future = <<>>
    /\ Len(clients[Editor].past) > 1

\* The current state differs from the last persisted snapshot.
DiffersFromPersisted(st) ==
    ~persistedSnapshotsEqual(st.lastSavedSnapshot, toPersistedSnapshot(captureSnapshot(st)))

\* C18: in every settled client state isDirty is true if and only if the
\* current elements, name, width, height or visibility differ from the last
\* successfully persisted snapshot; after a successful save the baseline
\* equals the saved state and isDirty is false.
C18_DirtyIffDiffers ==
    /\ clients[Editor].isDirty <=> DiffersFromPersisted(clients[Editor])
    /\ clientEvent.type = "saved"
          => ~clients[Editor].isDirty /\ ~DiffersFromPersisted(clients[Editor])

(***************************************************************************)
(* Properties of the history over a long run                               *)
(***************************************************************************)
\* The entries that can still be undone, and those undone and redoable.
Undoable == Len(clients[Editor].past) - 1
Undone == Len(clients[Editor].future)

\* C13: after up to 50 consecutive distinct history entries since the load,
\* all of them can be undone, each undo restoring the state that preceded the
\* corresponding entry; only a 51st entry evicts the oldest.
C13_FiftyEntriesUndoable ==
    edits <= MAX_HISTORY_ENTRIES
    => /\ Undoable + Undone = edits
       /\ clients[Editor].elements[1].x = edits - Undone

\* C14: the past and future stacks never hold more than 50 entries each; a
\* push onto a full stack removes the oldest entry, at the front, and keeps
\* the others in order.
C14_StacksCapped ==
    [][ LET before == clients[Editor]
            after == clients'[Editor]
            FrontDropped(stack, snapshot) ==
                IF Len(stack) < MAX_HISTORY_ENTRIES THEN Append(stack, snapshot)
                ELSE Append(SubSeq(stack, 2, Len(stack)), snapshot)
        IN  /\ Len(after.past) <= MAX_HISTORY_ENTRIES
            /\ Len(after.future) <= MAX_HISTORY_ENTRIES
            /\ clientEvent'.type = "change"
                  => after.past = FrontDropped(before.past, captureSnapshot(before))
            /\ (clientEvent'.type = "redo" /\ before.future # <<>>)
                  => after.past = FrontDropped(before.past, captureSnapshot(before))
            /\ (clientEvent'.type = "undo" /\ Len(before.past) > 1)
                  => after.future = FrontDropped(before.future, captureSnapshot(before))
      ]_vars

\* C14 witness: the 51st entry was recorded on a full past stack, which now
\* starts with the snapshot taken before the second entry.
C14_Witness ==
    /\ edits = MAX_HISTORY_ENTRIES + 1
    /\ clientEvent.type = "change"
    /\ Len(clients[Editor].past) = MAX_HISTORY_ENTRIES
    /\ clients[Editor].past[1].elements[1].x = 1
    /\ clients[Editor].past[MAX_HISTORY_ENTRIES].elements[1].x = MAX_HISTORY_ENTRIES

(***************************************************************************)
(* C21: design:join is idempotent per connection.  In every reachable      *)
(* relay state, for every live connection and room, a join followed by a   *)
(* second join with the same arguments gives the registries of the single  *)
(* join: one presence entry for the connection, the same members of the    *)
(* room, the same entries of the other participants.  A join handled for a *)
(* connection already in the room leaves one entry for it.                 *)
(***************************************************************************)
EntriesFor(reg, designId, s) ==
    {p \in PresenceList(reg.presenceByDesign, designId) : p.socketId = s}

C21_JoinIdempotent ==
    /\ \A s \in Sockets, d \in RoomIds :
          conn[s] = "live" =>
              LET once == joinDesign(CurrentRegistry, s, d, UserOf[s])
                  twice == joinDesign(once, s, d, UserOf[s])
              IN  /\ twice = once
                  /\ Cardinality(EntriesFor(twice, d, s)) = 1
                  /\ DOMAIN PresenceEntries(twice, d) = DOMAIN PresenceEntries(once, d)
                  /\ DOMAIN PresenceEntries(once, d) =
                        DOMAIN PresenceEntries(CurrentRegistry, d) \cup {s}
                  /\ twice.rooms[d] = rooms[d] \cup {s}
                  /\ \A o \in Sockets \ {s} :
                        EntryOf(twice, d, o) = EntryOf(CurrentRegistry, d, o)
    /\ (lastEvent.type = "design:join" /\ lastEvent.args.rejoin) =>
          /\ Cardinality(EntriesFor(CurrentRegistry, lastEvent.designId,
                                    lastEvent.socket)) = 1
          /\ PresenceKeys(lastEvent.designId) = rooms[lastEvent.designId]
          /\ joinDesign(CurrentRegistry, lastEvent.socket, lastEvent.designId,
                        lastEvent.args.userId) = CurrentRegistry

\* C21 witness: a connection already in a room with another participant has
\* joined it again.
C21_Witness ==
    /\ lastEvent.type = "design:join"
    /\ lastEvent.args.rejoin
    /\ Cardinality(rooms[lastEvent.designId]) >= 2
    /\ Cardinality(PresenceList(presenceByDesign, lastEvent.designId)) >= 2

(***************************************************************************)
(* C22: no key of the presence registry maps to an empty participant map.  *)
(* When the last participant of a room leaves or disconnects, the room's   *)
(* entry is deleted: a room without members has no entry.                  *)
(***************************************************************************)
C22_NoEmptyRooms ==
    /\ \A d \in DOMAIN presenceByDesign : MapSize(MapGet(presenceByDesign, d)) > 0
    /\ \A d \in RoomIds : rooms[d] = {} => ~MapHas(presenceByDesign, d)
    /\ lastEvent.type = "design:leave" =>
          (MapHas(presenceByDesign, lastEvent.designId)
              => PresenceKeys(lastEvent.designId) # {})
    /\ lastEvent.type = "disconnect" =>
          \A d \in lastEvent.args.joined :
              MapHas(presenceByDesign, d) => PresenceKeys(d) # {}

\* C22 witness: a connection that was the only participant of one room and
\* one of two in another has disconnected; the first room's entry is gone,
\* the second room's entry still lists the other participant.
C22_Witness ==
    /\ lastEvent.type = "disconnect"
    /\ \E d \in lastEvent.args.joined, d2 \in lastEvent.args.joined :
          /\ ~MapHas(presenceByDesign, d)
          /\ MapHas(presenceByDesign, d2)
          /\ MapSize(MapGet(presenceByDesign, d2)) = 1

(***************************************************************************)
(* C23: presence broadcasts.                                               *)
(***************************************************************************)
\* The handler emitted one design:presence event to room d, to every member
\* of d, carrying the room's current participant list.
PresenceBroadcast(d) ==
    /\ Len(emitted) = 1
    /\ emitted[1].event = "design:presence"
    /\ emitted[1].room = d
    /\ emitted[1].to = rooms[d]
    /\ emitted[1].payload.designId = d
    /\ emitted[1].payload.participants = PresenceList(presenceByDesign, d)

\* C23 as stated: every design:join, design:leave and design:cursor event the
\* server handles triggers a design:presence broadcast, with the room's
\* current participant list, to the room named in the event.
C23_PresenceOnJoinLeaveCursor ==
    lastEvent.type \in {"design:join", "design:leave", "design:cursor"} =>
        PresenceBroadcast(lastEvent.designId)

\* C23 amended: every design:join and design:leave triggers that broadcast;
\* a design:cursor event triggers no design:presence event but one
\* design:cursor event, carrying the sender's socket id and the cursor, to
\* the members of the named room other than the sender.
C23_PresenceOnJoinLeave ==
    /\ lastEvent.type \in {"design:join", "design:leave"} =>
          PresenceBroadcast(lastEvent.designId)
    /\ lastEvent.type = "design:cursor" =>
          /\ Len(emitted) = 1
          /\ emitted[1].event = "design:cursor"
          /\ emitted[1].room = lastEvent.designId
          /\ emitted[1].to = rooms[lastEvent.designId] \ {lastEvent.socket}
          /\ emitted[1].payload = [designId |-> lastEvent.designId,
                                   socketId |-> lastEvent.socket,
                                   cursor |-> lastEvent.args.cursor]

\* C23 witness: a participant of a room with another participant moved its
\* cursor; the registry holds the new cursor and the other participant is
\* sent the cursor event.
C23_Witness ==
    /\ lastEvent.type = "design:cursor"
    /\ lastEvent.args.cursor \in Cursors
    /\ lastEvent.socket \in PresenceKeys(lastEvent.designId)
    /\ MapGet(presenceByDesign, lastEvent.designId)[lastEvent.socket].cursor
          = lastEvent.args.cursor
    /\ emitted[1].to # {}

(***************************************************************************)
(* C29: the two server maps agree.  For every live connection s and room   *)
(* d, d is in membershipBySocket[s] if and only if presenceByDesign[d]     *)
(* has an entry for s; neither map holds an entry for a connection that    *)
(* has disconnected (or has not connected yet).                            *)
(***************************************************************************)
C29_MapsAgree ==
    /\ \A s \in Sockets :
          conn[s] = "live" =>
              /\ MapHas(membershipBySocket, s)
              /\ \A d \in RoomIds :
                    d \in MapGet(membershipBySocket, s) <=> s \in PresenceKeys(d)
    /\ \A s \in Sockets :
          conn[s] # "live" =>
              /\ ~MapHas(membershipBySocket, s)
              /\ \A d \in RoomIds : s \notin PresenceKeys(d)
    /\ DOMAIN membershipBySocket \subseteq Sockets
    /\ \A d \in DOMAIN presenceByDesign : PresenceKeys(d) \subseteq Sockets

\* C29 witness: one connection has disconnected from two rooms, another is
\* still a member of one room and not of the other.
C29_Witness ==
    \E s \in Sockets, o \in Sockets, d \in RoomIds :
        /\ conn[s] = "gone"
        /\ lastEvent = Event("disconnect", s, NoRoom, [joined |-> RoomIds])
        /\ conn[o] = "live"
        /\ MapGet(membershipBySocket, o) = {d}
        /\ PresenceKeys(d) = {o}

(***************************************************************************)
(* C30: the relay does not check sender membership.  A design:patch or     *)
(* design:cursor event naming room D, sent by a connection that is not in  *)
(* D (never joined, or left), is delivered to every member of D; the       *)
(* presence registry, and with it the sender's entries in other rooms, is  *)
(* left as it was.                                                         *)
(***************************************************************************)
FromOutsider ==
    /\ lastEvent.type \in {"design:patch", "design:cursor"}
    /\ lastEvent.socket \notin rooms[lastEvent.designId]

DeliveredToEveryMember ==
    FromOutsider =>
        /\ Len(emitted) = 1
        /\ emitted[1].event = lastEvent.type
        /\ emitted[1].room = lastEvent.designId
        /\ emitted[1].to = rooms[lastEvent.designId]
        /\ emitted[1].payload.designId = lastEvent.designId
        /\ lastEvent.type = "design:patch" => emitted[1].payload = lastEvent.args
        /\ lastEvent.type = "design:cursor" =>
              /\ emitted[1].payload.socketId = lastEvent.socket
              /\ emitted[1].payload.cursor = lastEvent.args.cursor

C30_NoMembershipCheck ==
    /\ [][ (/\ lastEvent'.type \in {"design:patch", "design:cursor"}
            /\ lastEvent'.socket \notin rooms[lastEvent'.designId])
              => /\ presenceByDesign' = presenceByDesign
                 /\ membershipBySocket' = membershipBySocket
                 /\ rooms' = rooms ]_vars
    /\ []DeliveredToEveryMember

\* C30 witness: a connection that is not in room D, and is a participant of
\* another room, sent a patch naming D, which went to D's two members.
C30_Witness ==
    /\ FromOutsider
    /\ lastEvent.type = "design:patch"
    /\ Cardinality(emitted[1].to) = 2
    /\ \E d2 \in RoomIds \ {lastEvent.designId} : lastEvent.socket \in PresenceKeys(d2)

(***************************************************************************)
(* C25: when a comment is submitted, each @label token of the message      *)
(* contributes one entry to mentions: the id stored with the mention       *)
(* entity of that label when there is one (the label was picked from the   *)
(* suggestions), the literal label otherwise; mentions has no duplicates.  *)
(* A token is an "@" followed by the longest non-empty run of label        *)
(* characters.                                                             *)
(***************************************************************************)
TokenStarts(message) ==
    {i \in 1..(Len(message) - 1) : message[i] = "@" /\ message[i + 1] \in LabelChars}

LabelAt(message, i) ==
    LET ends == {j \in (i + 1)..Len(message) :
                    \A k \in (i + 1)..j : message[k] \in LabelChars}
    IN  SubSeq(message, i + 1, CHOOSE j \in ends : \A k \in ends : k <= j)

Resolved(label, entities) ==
    IF \E i \in 1..Len(entities) : entities[i].label = label
    THEN {entities[i].id : i \in {k \in 1..Len(entities) : entities[k].label = label}}
    ELSE {label}

C25_MentionsResolved ==
    clientEvent.type = "comment:submit" =>
        LET message == clientEvent.detail.message
            entities == clientEvent.detail.entities
            mentions == clientEvent.detail.sent[1].mentions
        IN  /\ Len(clientEvent.detail.sent) = 1
            /\ clientEvent.detail.sent[1].message = message
            /\ \A i \in TokenStarts(message) :
                  /\ Cardinality(Resolved(LabelAt(message, i), entities)) = 1
                  /\ \E k \in 1..Len(mentions) :
                        Resolved(LabelAt(message, i), entities) = {mentions[k]}
            /\ \A k \in 1..Len(mentions) :
                  \E i \in TokenStarts(message) :
                     Resolved(LabelAt(message, i), entities) = {mentions[k]}
            /\ \A k \in 1..Len(mentions), m \in 1..Len(mentions) :
                  k # m => mentions[k] # mentions[m]

\* C25 witness: a submitted message with two tokens, one whose label was
\* picked from the suggestions and went out as the user's id, one typed by
\* hand that went out as its label.
C25_Witness ==
    /\ clientEvent.type = "comment:submit"
    /\ Cardinality(TokenStarts(clientEvent.detail.message)) = 2
    /\ Len(clientEvent.detail.entities) = 1
    /\ Len(clientEvent.detail.sent[1].mentions) = 2
    /\ clientEvent.detail.sent[1].mentions[1] = clientEvent.detail.entities[1].id
    /\ clientEvent.detail.sent[1].mentions[2] = <<"b">>

(***************************************************************************)
(* C27: the page's comment list never holds two comments with the same id, *)
(* under any interleaving of comment:created events (the sender's own      *)
(* echo and repeated deliveries included), REST createComment replies and  *)
(* the design load.                                                        *)
(***************************************************************************)
C27_CommentIdsUnique ==
    \A i \in 1..Len(panel.comments), k \in 1..Len(panel.comments) :
        i # k => panel.comments[i]._id # panel.comments[k]._id

\* C27 witness: an event or a REST reply brought a comment the list already
\* held, and the list holds two comments.
C27_Witness ==
    /\ clientEvent.type \in {"comment:created", "comment:reply"}
    /\ clientEvent.detail.listed
    /\ Len(panel.comments) = 2

(***************************************************************************)
(* C24: when the editor drags an element from pointer-down to pointer-up   *)
(* and every relayed patch has been delivered, in order, to a second page  *)
(* in the room (same canvas, no edits of its own), that page's copy of     *)
(* each element has the x and y of the editor's copy.                      *)
(***************************************************************************)
DragEnded ==
    /\ edits >= 2
    /\ clients[Editor].session = NoSession
    /\ inbox[Watcher] = <<>>

SamePositions(a, b) ==
    /\ Len(a) = Len(b)
    /\ \A i \in 1..Len(a) :
          /\ a[i].id = b[i].id
          /\ a[i].x = b[i].x
          /\ a[i].y = b[i].y

C24_DragReachesPeer ==
    DragEnded => SamePositions(clients[Editor].elements, clients[Watcher].elements)

(***************************************************************************)
(* C28: one pointer-down / drag / pointer-up interaction records exactly   *)
(* one history entry however many pointer-move steps it has, and the entry *)
(* holds the state from before the pointer-down, so one undo after the     *)
(* drag restores that state; one add, delete, reorder or inspector field   *)
(* edit records exactly one entry as well.                                 *)
(***************************************************************************)
DiscreteEdits == {"add", "delete", "reorder", "change"}

\* The step of a handler recorded, or did not record, its history entry.
OneEntryPerInteraction ==
    LET before == clients[Editor]
        after == clients'[Editor]
        type == clientEvent'.type
    IN  /\ type \in {"pointerdown", "resizedown", "rotatedown"} \cup DiscreteEdits
              => after.past = Append(before.past, captureSnapshot(before))
        /\ type \in {"drag", "resize", "rotate", "pointerup"}
              => after.past = before.past

\* After the interaction, undo gives back the state its entry holds.
UndoRestoresEntry ==
    (clientEvent.type \in {"pointerup"} \cup DiscreteEdits
        /\ clients[Editor].session = NoSession)
    => captureSnapshot(AfterUndo(clients[Editor]))
          = clients[Editor].past[Len(clients[Editor].past)]

C28_OneEntryPerInteraction ==
    [][OneEntryPerInteraction]_vars /\ []UndoRestoresEntry

(***************************************************************************)
(* C26: concurrent elements patches.  A page holds the elements of the     *)
(* patch it applied last, its own edit's or the peer's relayed one; its    *)
(* elements change in no other way, so nothing reconciles the two pages    *)
(* and after every message is delivered their copies can differ.           *)
(***************************************************************************)
LastPatchWins ==
    \A c \in ClientSockets :
        LET before == clients[c]
            after == clients'[c]
        IN  IF clientEvent'.client = c /\ clientEvent'.type = "design:patch"
            THEN LET patch == Head(inbox[c]).patch
                 IN  IF "elements" \in patch.fields
                     THEN after.elements = patch.elements
                     ELSE after.elements = before.elements
            ELSE IF clientEvent'.client = c /\ clientEvent'.type = "elements"
            THEN \A i \in 1..Len(clientEvent'.out) :
                    "elements" \in clientEvent'.out[i].patch.fields
                       => after.elements = clientEvent'.out[i].patch.elements
            ELSE after.elements = before.elements

\* What the relay holds for a page is what the peer emitted, unchanged.
RelayedAsEmitted ==
    \A c \in ClientSockets :
        clientEvent'.client # c =>
            \E k \in 0..Len(clientEvent'.out) :
                /\ Len(inbox'[c]) = Len(inbox[c]) + k
                /\ SubSeq(inbox'[c], 1, Len(inbox[c])) = inbox[c]
                /\ \A i \in 1..k :
                      \E j \in 1..Len(clientEvent'.out) :
                         inbox'[c][Len(inbox[c]) + i].patch = clientEvent'.out[j].patch

C26_LastPatchWins == [][LastPatchWins /\ RelayedAsEmitted]_vars

\* C26 witness: each page made one elements edit and emitted it before the
\* other's patch reached it; every patch has been delivered and applied, and
\* the two pages hold different elements, each the other's.
C26_Witness ==
    /\ edits = 2
    /\ sent = 2
    /\ InFlight = <<>>
    /\ clientEvent.type = "design:patch"
    /\ clientEvent.changed
    /\ \A c \in ClientSockets :
          /\ clients[c].connected
          /\ clients[c].elements # LoadedClient.elements
          /\ clients[c].selectedElementId = LoadedClient.selectedElementId
          /\ clients[c].draftName = LoadedClient.draftName
          /\ clients[c].draftIsPublic = LoadedClient.draftIsPublic
    /\ clients["sA"].elements # clients["sB"].elements

(***************************************************************************)
(* Properties of concurrent saves and of access to stored designs          *)
(***************************************************************************)
\* C31: of two updateDesign requests carrying the same expected version that
\* are processed concurrently at most one succeeds: a save is reported
\* successful only while the stored version is still the version the request
\* carried, so the stored version never advances by one for two successes.
C31_OneConcurrentSaveWins ==
    [][ UpdateSaved =>
           MapGet(designs, lastCall'.id).version = lastCall'.version ]_vars

\* The stored design an author may comment on: it exists and the author is
\* its owner, a collaborator, or it is public.
MayComment(store, comment) ==
    /\ isValidObjectId(comment.designId)
    /\ MapHas(store, comment.designId)
    /\ canAccessDesign(MapGet(store, comment.designId), comment.authorId)

\* C32: a comment is stored for a design only if the design exists and the
\* author may access it (owner, collaborator, or the design is public), on
\* the REST path and on the socket path alike.
C32_CommentsNeedAccess ==
    [][ \A comment \in comments' \ comments : MayComment(designs, comment) ]_vars

\* A user who is neither the owner nor a collaborator of a stored design
\* that is private.
Stranger(store, id, userId) ==
    /\ MapHas(store, id)
    /\ ~MapGet(store, id).isPublic
    /\ MapGet(store, id).owner # userId
    /\ userId \notin MapGet(store, id).collaboratorIds

\* A step in which getDesignById ran.
GetCalled == lastCall'.op = "getDesignById" /\ lastCall' # lastCall

\* C33: getDesignById and updateDesign on a private design, requested by a
\* user who is neither its owner nor one of its collaborators, fail with
\* DESIGN_NOT_FOUND, the error of an id that is not stored; nothing of the
\* design is returned, and the stored design is not modified nor a save begun.
C33_StrangersGetNotFound ==
    [][ /\ (GetCalled /\ Stranger(designs, lastCall'.id, lastCall'.userId))
           => ( /\ lastCall'.code = "DESIGN_NOT_FOUND"
                /\ lastCall'.result = NoDesign )
        /\ (UpdateCalled /\ Stranger(designs, lastCall'.id, lastCall'.userId))
           => ( /\ lastCall'.code = "DESIGN_NOT_FOUND"
                /\ designs' = designs
                /\ saving' = saving )
        /\ ((GetCalled \/ UpdateCalled) /\ ~MapHas(designs, lastCall'.id))
           => lastCall'.code = "DESIGN_NOT_FOUND"
      ]_vars

\* C33 witness: u2 asked to update u1's private design, already saved once,
\* with the stored version, and was answered DESIGN_NOT_FOUND.
C33_Witness ==
    /\ lastCall.op = "updateDesign"
    /\ lastCall.code = "DESIGN_NOT_FOUND"
    /\ Stranger(designs, lastCall.id, lastCall.userId)
    /\ MapGet(designs, lastCall.id).version = lastCall.version
    /\ lastCall.version > 0

\* The same for a read: u2 asked for u1's private design.
C33_WitnessRead ==
    /\ lastCall.op = "getDesignById"
    /\ lastCall.code = "DESIGN_NOT_FOUND"
    /\ Stranger(designs, lastCall.id, lastCall.userId)

(***************************************************************************)
(* Properties of saving                                                    *)
(***************************************************************************)
\* C34: a single client that loads a design and then saves repeatedly, with
\* no other writer on the design, never receives VERSION_CONFLICT: every
\* save request carries the version of the stored design, and every save
\* succeeds.
C34_SoleWriterNeverConflicts ==
    /\ lastCall.op = "updateDesign" =>
          /\ lastCall.version = MapGet(designs, PageDesignId).version - 1
          /\ lastCall.code = "OK"
    /\ \A i \in 1..Len(inbox[Editor]) : inbox[Editor][i].code = "OK"

\* The elements the page holds differ from those of the save request in
\* flight: a local edit or a remote patch changed them after the request
\* was sent.
ChangedInFlight(st) ==
    /\ st.pendingSave # <<>>
    /\ st.elements # Head(st.pendingSave).elements

\* C35: a local edit or remote patch applied while a save request is in
\* flight is not lost when the save completes: once the response is handled
\* the page's elements still hold the change, or the page is still dirty.
C35_EditInFlightSurvivesSave ==
    [][ (clientEvent'.type = "saved" /\ ChangedInFlight(clients[Editor]))
        => \/ clients'[Editor].elements = clients[Editor].elements
           \/ clients'[Editor].isDirty ]_vars

(***************************************************************************)
(* Properties of the history stacks                                        *)
(***************************************************************************)
\* A step of the editor page that changed nothing and emitted nothing.
NoOpStep ==
    /\ clients'[Editor] = clients[Editor]
    /\ clientEvent'.out = <<>>

\* C37: after a design has loaded the past stack is never empty: it starts
\* as the loaded snapshot alone; undo is a no-op (no state change, no
\* broadcast, stacks unchanged) whenever the past stack holds exactly one
\* snapshot, and redo is a no-op whenever the future stack is empty.
C37_PastNeverEmpty ==
    /\ [](Len(clients[Editor].past) >= 1)
    /\ [](clientEvent.type = "load" =>
             clients[Editor].past = <<captureSnapshot(clients[Editor])>>)
    /\ [][ /\ (clientEvent'.type = "undo" /\ Len(clients[Editor].past) = 1) => NoOpStep
           /\ (clientEvent'.type = "redo" /\ clients[Editor].future = <<>>) => NoOpStep
         ]_vars

\* C37 witness: every edit has been undone, the past stack holds the loaded
\* snapshot alone, and one more undo has left the page as it was, the
\* undone states still on the future stack.
C37_Witness ==
    /\ clientEvent.type = "undo"
    /\ Len(clients[Editor].past) = 1
    /\ clientEvent.out = <<>>
    /\ clientEvent.redoable = Len(clients[Editor].future)
    /\ Len(clients[Editor].future) \in 1..(MAX_HISTORY_ENTRIES - 1)
    /\ captureSnapshot(clients[Editor]) = clients[Editor].past[1]

\* The document of a page state and of a history entry: what is persisted,
\* without the selection.
Document(st) == toPersistedSnapshot(captureSnapshot(st))

\* C38: a history entry is recorded only for an interaction that changes the
\* document: when a pointer-up has ended an interaction, the newest entry of
\* the past stack, if one was recorded since the load, holds a document
\* different from the current one.  A pointer-down followed by a pointer-up
\* with no movement must leave no such entry.
C38_EntriesOnlyForChanges ==
    (clientEvent.type = "pointerup" /\ Len(clients[Editor].past) >= 2)
    => toPersistedSnapshot(clients[Editor].past[Len(clients[Editor].past)])
          # Document(clients[Editor])

(***************************************************************************)
(* The comment panel with the scheduling the code relies on: the server    *)
(* runs its comment:create handler for every event it has received, and    *)
(* the socket delivers to a connected page what the server has emitted to  *)
(* its room or to it alone.                                                *)
(***************************************************************************)
CommentFairness ==
    /\ WF_vars(\E ok \in BOOLEAN : ServerCommentCreate(ok))
    /\ \A comment \in StorableComments :
          WF_vars(CommentCreatedEvent(comment, PageDesignId))
    /\ WF_vars(CommentSocketError)

SpecCommentLive == CommentListInit /\ [][CommentListNext]_vars /\ CommentFairness

\* The page has emitted comment:create and waits for what comes back.
SocketSubmitting ==
    panel.commentSubmitting /\ panel.pendingCommentMessage # <<>>

\* C39: once the page has emitted comment:create over its connected socket,
\* the submitting state is eventually cleared, and what clears it is the
\* comment:created echo carrying the local user's id as authorId, an error
\* event, or the disconnect of the socket.
C39_SubmittingEventuallyCleared ==
    /\ SocketSubmitting ~> ~panel.commentSubmitting
    /\ [][ (SocketSubmitting /\ ~panel'.commentSubmitting)
           => \/ /\ clientEvent'.type = "comment:created"
                 /\ clientEvent'.detail.comment.authorId = PageUser
                 /\ clientEvent'.detail.designId = PageDesignId
              \/ clientEvent'.type \in {"error", "disconnect"} ]_vars

\* The one comment submitted over the socket has come back as the echo and
\* cleared the submitting state without an error.
C39_Witness ==
    /\ clientEvent.type = "comment:created"
    /\ clientEvent.detail.comment.authorId = PageUser
    /\ ~clientEvent.detail.listed
    /\ edits = 1
    /\ panel.connected
    /\ ~panel.commentSubmitting
    /\ panel.pendingCommentMessage = <<>>
    /\ panel.commentError = "none"
    /\ wire.posts = <<>> /\ wire.replies = {}

\* An undo or a redo that has a snapshot to apply, and that snapshot.
Restoring ==
    \/ clientEvent'.type = "undo" /\ Len(clients[Editor].past) > 1
    \/ clientEvent'.type = "redo" /\ clients[Editor].future # <<>>

Restored ==
    IF clientEvent'.type = "undo"
    THEN clients[Editor].past[Len(clients[Editor].past)]
    ELSE clients[Editor].future[Len(clients[Editor].future)]

\* The fields of a patch whose value differs between two page states.
FieldsChanged(before, after) ==
    (IF before.elements # after.elements THEN {"elements"} ELSE {})
    \cup (IF before.selectedElementId # after.selectedElementId
          THEN {"selectedElementId"} ELSE {})
    \cup (IF before.draftWidth # after.draftWidth THEN {"width"} ELSE {})
    \cup (IF before.draftHeight # after.draftHeight THEN {"height"} ELSE {})
    \cup (IF before.draftName # after.draftName THEN {"name"} ELSE {})
    \cup (IF before.draftIsPublic # after.draftIsPublic THEN {"isPublic"} ELSE {})

\* C36: an undo or a redo replaces the page's working document (elements,
\* width, height, name, visibility) by the snapshot it pops, whatever remote
\* patches have changed since the snapshot was taken, and broadcasts the
\* fields that changed as one patch.
C36_UndoReplacesWholeState ==
    [][ Restoring =>
          /\ Document(clients'[Editor]) = toPersistedSnapshot(Restored)
          /\ Len(clientEvent'.out) <= 1
          /\ FieldsChanged(clients[Editor], clients'[Editor]) # {}
                => /\ Len(clientEvent'.out) = 1
                   /\ clientEvent'.out[1].patch.fields
                         = FieldsChanged(clients[Editor], clients'[Editor])
          /\ FieldsChanged(clients[Editor], clients'[Editor]) = {}
                => clientEvent'.out = <<>> ]_vars

\* 0 <= x <= canvasWidth - width and 0 <= y <= canvasHeight - height.
WithinCanvas(element, canvasWidth, canvasHeight) ==
    /\ 0 <= element.x
    /\ element.x <= canvasWidth - element.width
    /\ 0 <= element.y
    /\ element.y <= canvasHeight - element.height

\* C40: in every state of the page every element lies within the current
\* canvas, also after a remote patch of the width or height and after an
\* undo or redo that restores other canvas dimensions.
C40_ElementsWithinCanvas ==
    \A i \in 1..Len(clients[Editor].elements) :
        WithinCanvas(clients[Editor].elements[i],
                     clients[Editor].draftWidth, clients[Editor].draftHeight)

====
